---- MODULE Spec2Model ----
(***************************************************************************)
(* A model of generate.mjs, the usage report generator of                 *)
(* nazt/claude-usage-report: a one-shot script that loads the stats       *)
(* snapshot, derives the metrics (ranked models, grand totals, cost       *)
(* estimate, daily aggregates, peak day, top days, hour distribution),    *)
(* writes four artifacts and optionally pushes.  Each top-level statement *)
(* group of the script is one action; pc is the script's position.        *)
(***************************************************************************)
EXTENDS Integers, Sequences, FiniteSets, TLC

VARIABLES
    statsFile,          \* ~/.claude/stats-cache.json as found on disk (environment)
    projectsDir,        \* ~/.claude/projects as found on disk (environment)
    argv,               \* the command-line flags (environment)
    pc,                 \* position of the script
    error,              \* the uncaught exception that ended the script, if any
    stats,              \* const stats (line 21)
    sessions,           \* const sessions (line 24)
    models,             \* const models (lines 30-34)
    totalTokens, totalInput, totalOutput, totalCacheRead, totalCacheCreate,
    costEstimate,       \* const costEstimate (line 43), an exact rational
    daily, totalMessages, totalSessions, totalToolCalls, dayCount,
    avgMessagesPerDay,
    peakDay, topDays,
    hourCounts, maxHourCount,
    prompts,
    maxDailyMsg,        \* local of generateHTML (line 187)
    written,            \* artifacts written so far, in order
    dataJson,           \* the content of data.json, once written (lines 89-100)
    pushed,             \* whether the git command ran
    clock,              \* the system time (environment)
    generated,          \* const generated (line 74)
    bars,               \* the bar heights rendered into index.html (lines 190, 238)
    previous,           \* the data.json of each earlier run on the same inputs
    call,               \* a call of fmt or pct: the function and its arguments
    result              \* the string the call returned, <<>> before it returns

vars == <<statsFile, projectsDir, argv, pc, error, stats, sessions, models, totalTokens,
          totalInput, totalOutput, totalCacheRead, totalCacheCreate,
          costEstimate, daily, totalMessages, totalSessions, totalToolCalls,
          dayCount, avgMessagesPerDay, peakDay, topDays, hourCounts,
          maxHourCount, prompts, maxDailyMsg, written, dataJson, pushed,
          clock, generated, previous, bars, call, result>>

----------------------------------------------------------------------------
(* Bounds of the model.                                                    *)

\* at most this many keys in modelUsage
MaxModels == 2
\* the token counters of one snapshot add up to at most this
MaxTokens == 2
\* at most this many token counters of one snapshot are absent
MaxAbsent == 1
\* at most this many records in dailyActivity
MaxDays == 6
\* messageCount of a day is at most this
MaxMsg == 2
\* at most this many records in dailyActivity where other inputs vary too
MaxFewDays == 2
\* the count of an hour is at most this
MaxHour == 2
\* sessionCount of a day is at most this where it varies
MaxCount == 1
\* pct is called with parts 0..MaxPart and wholes 0..MaxWhole
MaxPart == 8
MaxWhole == 8
\* fmt is called this far on either side of a suffix threshold
MaxOffset == 5
\* and on this many half steps of the last printed digit from a threshold
MaxHalfSteps == 4
MaxRuns == 2
MaxClock == 2
MaxEntries == 2
MaxCreated == 2
MaxSessions == 2

----------------------------------------------------------------------------
(* Generic helpers.                                                        *)

Min(a, b) == IF a < b THEN a ELSE b

Max(a, b) == IF a > b THEN a ELSE b

RECURSIVE GCD(_, _)
GCD(a, b) == IF b = 0 THEN a ELSE GCD(b, a % b)

Abs(n) == IF n < 0 THEN -n ELSE n

\* JavaScript numbers that are not integers (the rates 1.5 and 3.75, the
\* quotient by 1_000_000) are kept as exact fractions in lowest terms.
Frac(n, d) ==
    LET g == GCD(Abs(n), d)
    IN  IF n = 0 THEN [num |-> 0, den |-> 1] ELSE [num |-> n \div g, den |-> d \div g]

FracOfInt(n) == [num |-> n, den |-> 1]

FracAdd(x, y) == Frac(x.num * y.den + y.num * x.den, x.den * y.den)

FracTimesInt(x, n) == Frac(x.num * n, x.den)

FracDivInt(x, n) == Frac(x.num, x.den * n)

\* Math.max of two rationals
FracMax(x, y) == IF x.num * y.den >= y.num * x.den THEN x ELSE y

\* `o.f || 0` on a record whose field may be absent
OrZero(o, f) == IF f \in DOMAIN o THEN o[f] ELSE 0

RECURSIVE SumSeq(_)
SumSeq(s) == IF s = <<>> THEN 0 ELSE Head(s) + SumSeq(Tail(s))

----------------------------------------------------------------------------
(* The metrics of generate.mjs, lines 28-63.                               *)

TokenFields ==
    {"inputTokens", "outputTokens", "cacheReadInputTokens", "cacheCreationInputTokens"}

\* Object.entries(stats.modelUsage): the mapping is kept as the sequence of
\* its [key, value] pairs in insertion order, keys unique.
Entries(modelUsage) == modelUsage

\* A modelUsage that is not a JSON object cannot stand in the field that
\* otherwise holds a mapping (values of different kinds do not compare), so
\* such a snapshot has no modelUsage field and names the JSON type of the
\* value ("null", "number", "boolean") in the field modelUsageType.
\* Line 30: Object.entries throws TypeError on undefined and on null.
EntriesThrows(st) ==
    /\ "modelUsage" \notin DOMAIN st
    /\ "modelUsageType" \in DOMAIN st => st.modelUsageType = "null"

\* line 30: what Object.entries is applied to; a number or a boolean has no
\* entries, like the empty mapping
UsageOf(st) == IF "modelUsage" \in DOMAIN st THEN st.modelUsage ELSE <<>>

\* a total that leaves out the cache creation tokens
UsageTotalWithoutCacheCreation(u) ==
    OrZero(u, "inputTokens") + OrZero(u, "outputTokens") + OrZero(u, "cacheReadInputTokens")

\* line 31-32: the total of one usage record, absent counters as 0
UsageTotal(u) ==
    OrZero(u, "inputTokens") + OrZero(u, "outputTokens") +
    OrZero(u, "cacheReadInputTokens") + OrZero(u, "cacheCreationInputTokens")

\* line 33: { id, ...u, total } -- the fields of u are spread over id, and
\* total is written last
Aggregate(id, u) ==
    [f \in {"id", "total"} \cup DOMAIN u |->
        IF f = "total" THEN UsageTotal(u)
        ELSE IF f \in DOMAIN u THEN u[f]
        ELSE id]

\* line 30-33: .map(([id, u]) => ...)
MapAggregate(entries) == [i \in 1..Len(entries) |-> Aggregate(entries[i].key, entries[i].value)]

\* line 34: the comparator (a, b) => b.total - a.total
CmpModels(a, b) == b.total - a.total

\* a sort that puts an element ahead of the earlier elements it ties with
RECURSIVE InsertModelUnstable(_, _)
InsertModelUnstable(sorted, x) ==
    IF sorted = <<>> THEN <<x>>
    ELSE IF CmpModels(Head(sorted), x) < 0
         THEN <<Head(sorted)>> \o InsertModelUnstable(Tail(sorted), x)
         ELSE <<x>> \o sorted

\* Array.prototype.sort is stable (ECMAScript 2019; the script is an ES
\* module, so it runs on engines that implement it): an element stays behind
\* every earlier element the comparator does not put after it.
RECURSIVE InsertModel(_, _)
InsertModel(sorted, x) ==
    IF sorted = <<>> THEN <<x>>
    ELSE IF CmpModels(Head(sorted), x) <= 0
         THEN <<Head(sorted)>> \o InsertModel(Tail(sorted), x)
         ELSE <<x>> \o sorted

RECURSIVE SortModels(_)
SortModels(s) ==
    IF s = <<>> THEN <<>>
    ELSE InsertModel(SortModels(SubSeq(s, 1, Len(s) - 1)), s[Len(s)])

\* a ranking that filters out the models without tokens
ModelsWithTokens(modelUsage) ==
    SelectSeq(SortModels(MapAggregate(Entries(modelUsage))), LAMBDA m : m.total > 0)

\* lines 30-34
Models(modelUsage) == SortModels(MapAggregate(Entries(modelUsage)))

\* lines 36-40: models.reduce((s, m) => s + (m.f || 0), 0)
RECURSIVE ReduceSum(_, _, _)
ReduceSum(ms, f, acc) ==
    IF ms = <<>> THEN acc
    ELSE ReduceSum(Tail(ms), f, acc + OrZero(Head(ms), f))

\* line 36: models.reduce((s, m) => s + m.total, 0)
TotalTokens(ms) == ReduceSum(ms, "total", 0)

\* the rate table of line 43, dollars per million tokens
RateInput == FracOfInt(15)

RateOutput == FracOfInt(75)

RateCacheRead == Frac(3, 2)

RateCacheCreate == Frac(15, 4)

PerMillion == 1000000

\* a cost that prices each model at the rates of its family (Sonnet at a
\* fifth of Opus)
RECURSIVE CostPerModelOf(_)
CostPerModelOf(ms) ==
    IF ms = <<>> THEN FracOfInt(0)
    ELSE LET m == Head(ms)
             full == FracAdd(FracAdd(FracAdd(FracTimesInt(RateInput, OrZero(m, "inputTokens")),
                                             FracTimesInt(RateOutput, OrZero(m, "outputTokens"))),
                                     FracTimesInt(RateCacheRead, OrZero(m, "cacheReadInputTokens"))),
                             FracTimesInt(RateCacheCreate, OrZero(m, "cacheCreationInputTokens")))
         IN  FracAdd(IF m.id = "claude-sonnet-4-5-20250929" THEN Frac(full.num, full.den * 5) ELSE full,
                     CostPerModelOf(Tail(ms)))

CostEstimatePerModel(tIn, tOut, tRead, tCreate) == FracDivInt(CostPerModelOf(models), PerMillion)

\* a cost whose first term adds the rate instead of multiplying by it
CostEstimateAddsRate(tIn, tOut, tRead, tCreate) ==
    FracDivInt(
        FracAdd(FracAdd(FracAdd(FracAdd(RateInput, FracOfInt(tIn)),
                                FracTimesInt(RateOutput, tOut)),
                        FracTimesInt(RateCacheRead, tRead)),
                FracTimesInt(RateCacheCreate, tCreate)),
        PerMillion)

\* line 43
CostEstimate(tIn, tOut, tRead, tCreate) ==
    FracDivInt(
        FracAdd(FracAdd(FracAdd(FracTimesInt(RateInput, tIn),
                                FracTimesInt(RateOutput, tOut)),
                        FracTimesInt(RateCacheRead, tRead)),
                FracTimesInt(RateCacheCreate, tCreate)),
        PerMillion)

\* line 45: stats.dailyActivity || []
Daily(st) == IF "dailyActivity" \in DOMAIN st THEN st.dailyActivity ELSE <<>>

\* The counts of the model are never negative, so -1 is free to stand for
\* NaN, the value of `s + undefined` (line 46) and of Math.max(undefined)
\* (line 187).
NaN == -1

\* a + b on numbers either of which may be NaN
Plus(a, b) == IF a = NaN \/ b = NaN THEN NaN ELSE a + b

\* `o.f` as an operand of arithmetic: undefined becomes NaN
ToNumber(o, f) == IF f \in DOMAIN o THEN o[f] ELSE NaN

\* a reduction that keeps the value of the last day instead of adding it
RECURSIVE ReduceDaysLast(_, _, _)
ReduceDaysLast(ds, f, acc) ==
    IF ds = <<>> THEN acc
    ELSE ReduceDaysLast(Tail(ds), f, ToNumber(Head(ds), f))

\* lines 46-47: daily.reduce((s, d) => s + d.f, 0)
RECURSIVE ReduceDays(_, _, _)
ReduceDays(ds, f, acc) ==
    IF ds = <<>> THEN acc
    ELSE ReduceDays(Tail(ds), f, Plus(acc, ToNumber(Head(ds), f)))

\* lines 46-47: stats.f || daily.reduce(...): a supplied 0 is falsy, and the
\* right operand is the result whatever it is
TotalOr(st, f, ds, g) ==
    IF f \in DOMAIN st /\ st[f] # 0 THEN st[f] ELSE ReduceDays(ds, g, 0)

\* line 48: daily.reduce((s, d) => s + (d.toolCallCount || 0), 0)
RECURSIVE TotalToolCalls(_, _)
TotalToolCalls(ds, acc) ==
    IF ds = <<>> THEN acc
    ELSE TotalToolCalls(Tail(ds), acc + OrZero(Head(ds), "toolCallCount"))

\* a quotient that is truncated
FloorDiv(n, d) == n \div d

\* Math.round of a non-negative quotient: halves round up
RoundDiv(n, d) == (2 * n + d) \div (2 * d)

\* line 50: Math.round(NaN / dayCount) is NaN
AvgMessagesPerDay(tm, dc) ==
    IF dc # 0 THEN (IF tm = NaN THEN NaN ELSE RoundDiv(tm, dc)) ELSE 0

\* line 53: the zero-valued sentinel of an empty daily
NoPeak == [date |-> "N/A", messageCount |-> 0]

\* a comparison that lets a later day of equal messageCount replace the peak
AtLeastAsManyMessages(d, max) ==
    /\ "messageCount" \in DOMAIN d
    /\ "messageCount" \in DOMAIN max
    /\ d.messageCount >= max.messageCount

\* line 53: d.messageCount > max.messageCount (false when either is absent)
MoreMessages(d, max) ==
    /\ "messageCount" \in DOMAIN d
    /\ "messageCount" \in DOMAIN max
    /\ d.messageCount > max.messageCount

\* line 53: the reducer (max, d) => d.messageCount > max.messageCount ? d : max
PeakStep(max, d) == IF MoreMessages(d, max) THEN d ELSE max

RECURSIVE ReducePeak(_, _)
ReducePeak(ds, max) ==
    IF ds = <<>> THEN max ELSE ReducePeak(Tail(ds), PeakStep(max, Head(ds)))

\* a reduction that always starts from the sentinel
PeakDayFromSentinel(ds) == ReducePeak(ds, NoPeak)

\* line 53: the initial accumulator is daily[0] || sentinel
PeakDay(ds) == ReducePeak(ds, IF ds # <<>> THEN ds[1] ELSE NoPeak)

\* a comparator that sorts ascending
CmpDaysAscending(a, b) ==
    IF "messageCount" \in DOMAIN a /\ "messageCount" \in DOMAIN b
    THEN a.messageCount - b.messageCount
    ELSE 0

\* line 56: the comparator (a, b) => b.messageCount - a.messageCount; when a
\* messageCount is absent the difference is NaN, which sort takes as +0
CmpDays(a, b) ==
    IF "messageCount" \in DOMAIN a /\ "messageCount" \in DOMAIN b
    THEN b.messageCount - a.messageCount
    ELSE 0

\* a sort that puts a day ahead of the earlier days it ties with
RECURSIVE InsertDayUnstable(_, _)
InsertDayUnstable(sorted, x) ==
    IF sorted = <<>> THEN <<x>>
    ELSE IF CmpDays(Head(sorted), x) < 0
         THEN <<Head(sorted)>> \o InsertDayUnstable(Tail(sorted), x)
         ELSE <<x>> \o sorted

RECURSIVE InsertDay(_, _)
InsertDay(sorted, x) ==
    IF sorted = <<>> THEN <<x>>
    ELSE IF CmpDays(Head(sorted), x) <= 0
         THEN <<Head(sorted)>> \o InsertDay(Tail(sorted), x)
         ELSE <<x>> \o sorted

\* line 56: [...daily].sort(...), a stable sort of a copy
RECURSIVE SortDays(_)
SortDays(s) ==
    IF s = <<>> THEN <<>>
    ELSE InsertDay(SortDays(SubSeq(s, 1, Len(s) - 1)), s[Len(s)])

\* line 56: .slice(0, 5)
TopN == 5

Slice(s, n) == SubSeq(s, 1, Min(n, Len(s)))

\* line 56
TopDays(ds) == Slice(SortDays(ds), TopN)

\* the comparator of line 56 is consistent on ds: either no messageCount is
\* absent, or the records that have one have the same one (then every
\* comparison is +0)
ConsistentComparator(ds) ==
    \/ \A i \in 1..Len(ds) : "messageCount" \in DOMAIN ds[i]
    \/ \A i, j \in 1..Len(ds) :
          ("messageCount" \in DOMAIN ds[i] /\ "messageCount" \in DOMAIN ds[j])
              => ds[i].messageCount = ds[j].messageCount

\* the orders in which the records of ds can stand
PermutationsOf(ds) ==
    {[i \in 1..Len(ds) |-> ds[p[i]]] :
        p \in {q \in [1..Len(ds) -> 1..Len(ds)] :
                  \A i, j \in 1..Len(ds) : i # j => q[i] # q[j]}}

\* line 56: under a comparator that is not consistent the order sort
\* leaves is implementation-defined (ECMAScript, Array.prototype.sort), so
\* every order is a possible outcome
TopDaysOutcomes(ds) ==
    IF ConsistentComparator(ds) THEN {TopDays(ds)}
    ELSE {Slice(p, TopN) : p \in PermutationsOf(ds)}

\* line 59: stats.hourCounts || {}
HourCounts(st) == IF "hourCounts" \in DOMAIN st THEN st.hourCounts ELSE << >>

\* Math.max(...values, 1) over a set or sequence of numbers
RECURSIVE MaxWithFloor(_, _)
MaxWithFloor(vals, floor) ==
    IF vals = <<>> THEN floor
    ELSE MaxWithFloor(Tail(vals), Max(floor, Head(vals)))

\* Object.values(hourCounts)
RECURSIVE ValuesOf(_, _)
ValuesOf(o, keys) ==
    IF keys = {} THEN <<>>
    ELSE LET k == CHOOSE k \in keys : TRUE
         IN  <<o[k]>> \o ValuesOf(o, keys \ {k})

\* a maximum of the hour counts without the floor of 1
MaxHourCountNoFloor(hc) == MaxWithFloor(ValuesOf(hc, DOMAIN hc), 0)

\* line 60
MaxHourCount(hc) == MaxWithFloor(ValuesOf(hc, DOMAIN hc), 1)

\* line 237: hourCounts[h] || 0, the property key of hour h being its
\* decimal string
HourCountAt(hc, h) == OrZero(hc, ToString(h))

\* a maximum without the floor of 1
MaxDailyMsgNoFloor(ds) == MaxWithFloor([i \in 1..Len(ds) |-> ds[i].messageCount], 0)

\* line 187: Math.max(...daily.map(d => d.messageCount), 1), which is NaN
\* when an argument is undefined
MaxDailyMsg(ds) ==
    IF \E i \in 1..Len(ds) : "messageCount" \notin DOMAIN ds[i] THEN NaN
    ELSE MaxWithFloor([i \in 1..Len(ds) |-> ds[i].messageCount], 1)

\* nothing rendered yet
NoBars == [daily |-> <<>>, hours |-> <<>>]

\* a height without the floor of 1
BarHeightNoFloor(value, max) == FracTimesInt(Frac(value, max), 100)

\* lines 190 and 238: Math.max((value / max) * 100, 1)
BarHeight(value, max) == FracMax(FracTimesInt(Frac(value, max), 100), FracOfInt(1))

\* lines 189-190: one height per day record
DailyBars(ds, max) == [i \in 1..Len(ds) |-> BarHeight(ds[i].messageCount, max)]

\* lines 236-238: one height for each of the hours 0..23, kept at h + 1
HourBars(hc, max) == [j \in 1..24 |-> BarHeight(HourCountAt(hc, j - 1), max)]

----------------------------------------------------------------------------
(* The content of data.json, lines 89-100.                                 *)

\* JSON.stringify writes NaN as null; no count is negative, so -2 is free
\* to stand for the null of the file.
JsonNull == -2

JsonNumber(x) == IF x = NaN THEN JsonNull ELSE x

\* line 95: the names the counters are exported under
ExportNames ==
    [input |-> "inputTokens", output |-> "outputTokens",
     cacheRead |-> "cacheReadInputTokens", cacheCreate |-> "cacheCreationInputTokens"]

\* line 95: m => ({ id: m.id, total: m.total, input: m.inputTokens, ... });
\* a property whose value is undefined is left out by JSON.stringify
ExportModel(m) ==
    [f \in {"id", "total"} \cup {e \in DOMAIN ExportNames : ExportNames[e] \in DOMAIN m} |->
        IF f \in {"id", "total"} THEN m[f] ELSE m[ExportNames[f]]]

\* lines 89-100: the object handed to JSON.stringify, as the file holds it
DataJson ==
    [generated         |-> generated,
     totalTokens       |-> totalTokens,
     totalInput        |-> totalInput,
     totalOutput       |-> totalOutput,
     totalCacheRead    |-> totalCacheRead,
     totalCacheCreate  |-> totalCacheCreate,
     costEstimate      |-> costEstimate,
     totalMessages     |-> JsonNumber(totalMessages),
     totalSessions     |-> JsonNumber(totalSessions),
     totalToolCalls    |-> totalToolCalls,
     dayCount          |-> dayCount,
     avgMessagesPerDay |-> JsonNumber(avgMessagesPerDay),
     models            |-> [i \in 1..Len(models) |-> ExportModel(models[i])],
     daily             |-> daily,
     hourCounts        |-> hourCounts,
     peakDay           |-> peakDay,
     topDays           |-> topDays]

----------------------------------------------------------------------------
(* The formatters fmt and pct, lines 146-159.  A string is the sequence of *)
(* its characters.                                                         *)

DigitChars == <<"0", "1", "2", "3", "4", "5", "6", "7", "8", "9">>

\* line 150: n.toString() of a non-negative integer
RECURSIVE Digits(_)
Digits(n) ==
    IF n < 10 THEN <<DigitChars[n + 1]>>
    ELSE Digits(n \div 10) \o <<DigitChars[(n % 10) + 1]>>

RECURSIVE Pow10(_)
Pow10(d) == IF d = 0 THEN 1 ELSE 10 * Pow10(d - 1)

\* the last d digits of k, zeros included
RECURSIVE PadDigits(_, _)
PadDigits(k, d) ==
    IF d = 0 THEN <<>>
    ELSE PadDigits(k \div 10, d - 1) \o <<DigitChars[(k % 10) + 1]>>

\* the string of k / 10^d with d digits after the point
Decimal(k, d) == Digits(k \div Pow10(d)) \o <<".">> \o PadDigits(k % Pow10(d), d)

\* a fraction with this denominator is a double without rounding (the
\* numerators of the model are far below 2^53)
RECURSIVE IsPowerOfTwo(_)
IsPowerOfTwo(n) == n = 1 \/ (n % 2 = 0 /\ IsPowerOfTwo(n \div 2))

\* Number.prototype.toFixed(d) of a double that was computed as the
\* non-negative fraction x: the string of k / 10^d for the integer k nearest
\* to the double times 10^d, the larger k on a tie.  When x lies halfway
\* between two k and the double is x itself (exact), that is the larger k;
\* when the double is x rounded, it lies on either side of x, and toFixed
\* gives the k of that side.
ToFixed(x, d, exact) ==
    LET g   == GCD(x.den, Pow10(d))
        num == x.num * (Pow10(d) \div g)
        den == x.den \div g
        q   == num \div den
        r   == num % den
        ks  == IF 2 * r < den THEN {q}
               ELSE IF 2 * r > den THEN {q + 1}
               ELSE IF exact THEN {q + 1}
               ELSE {q, q + 1}
    IN  {Decimal(k, d) : k \in ks}

\* the thresholds of lines 147-149
Billion == 1000000000

Million == 1000000

Thousand == 1000

\* n / unit as the double the division of lines 147-149 gives
Quotient(n, unit) == Frac(n, unit)

\* a fmt whose thresholds are exclusive
FmtAboveThresholds(n) ==
    IF n > Billion
    THEN {t \o <<"B">> : t \in ToFixed(Quotient(n, Billion), 2, IsPowerOfTwo(Quotient(n, Billion).den))}
    ELSE IF n > Million
    THEN {t \o <<"M">> : t \in ToFixed(Quotient(n, Million), 2, IsPowerOfTwo(Quotient(n, Million).den))}
    ELSE IF n > Thousand
    THEN {t \o <<"K">> : t \in ToFixed(Quotient(n, Thousand), 1, IsPowerOfTwo(Quotient(n, Thousand).den))}
    ELSE {Digits(n)}

\* lines 146-151: the strings fmt(n) can return for a non-negative integer n
Fmt(n) ==
    IF n >= Billion
    THEN {t \o <<"B">> : t \in ToFixed(Quotient(n, Billion), 2, IsPowerOfTwo(Quotient(n, Billion).den))}
    ELSE IF n >= Million
    THEN {t \o <<"M">> : t \in ToFixed(Quotient(n, Million), 2, IsPowerOfTwo(Quotient(n, Million).den))}
    ELSE IF n >= Thousand
    THEN {t \o <<"K">> : t \in ToFixed(Quotient(n, Thousand), 1, IsPowerOfTwo(Quotient(n, Thousand).den))}
    ELSE {Digits(n)}

\* a pct that leaves out the factor 100
PctOfRatio(part, whole) ==
    IF whole # 0
    THEN ToFixed(Frac(part, whole), 1, IsPowerOfTwo(Frac(part, whole).den))
    ELSE {<<"0">>}

\* lines 157-159: the strings pct(part, whole) can return for non-negative
\* integers; (part / whole) * 100 is exact when part / whole is
Pct(part, whole) ==
    IF whole # 0
    THEN ToFixed(Frac(100 * part, whole), 1, IsPowerOfTwo(Frac(part, whole).den))
    ELSE {<<"0">>}

----------------------------------------------------------------------------
(* Session loading and prompt extraction, lines 117-144.                   *)

\* line 125: dir.replace(/-/g, '/').replace(/^\//, ''), a directory name
\* being a sequence of characters
ProjectName(dir) ==
    LET slashed == [i \in 1..Len(dir) |-> IF dir[i] = "-" THEN "/" ELSE dir[i]]
    IN  IF slashed # <<>> /\ slashed[1] = "/" THEN Tail(slashed) ELSE slashed

\* line 127: { ...entry, projectDir: dir, projectName }
TagEntry(entry, dir) ==
    [f \in DOMAIN entry \cup {"projectDir", "projectName"} |->
        IF f = "projectDir" THEN dir
        ELSE IF f = "projectName" THEN ProjectName(dir)
        ELSE entry[f]]

\* lines 121-129: the sessions one project directory contributes
ProjectSessions(p) ==
    IF ~p.index.exists \/ ~p.index.valid THEN <<>>
    ELSE LET es == IF "entries" \in DOMAIN p.index.json
                   THEN p.index.json.entries ELSE <<>>
         IN  [i \in 1..Len(es) |-> TagEntry(es[i], p.dir)]

\* a loop that breaks at the first project without a readable index
RECURSIVE AllSessionsUntilUnreadable(_)
AllSessionsUntilUnreadable(dirs) ==
    IF dirs = <<>> THEN <<>>
    ELSE IF ~Head(dirs).index.exists \/ ~Head(dirs).index.valid THEN <<>>
    ELSE ProjectSessions(Head(dirs)) \o AllSessionsUntilUnreadable(Tail(dirs))

RECURSIVE AllSessions(_)
AllSessions(dirs) ==
    IF dirs = <<>> THEN <<>>
    ELSE ProjectSessions(Head(dirs)) \o AllSessions(Tail(dirs))

CmpSessionsAscending(a, b) == a.created - b.created

\* line 131: the comparator (a, b) => new Date(b.created) - new Date(a.created)
CmpSessions(a, b) == b.created - a.created

RECURSIVE InsertSession(_, _)
InsertSession(sorted, x) ==
    IF sorted = <<>> THEN <<x>>
    ELSE IF CmpSessions(Head(sorted), x) <= 0
         THEN <<Head(sorted)>> \o InsertSession(Tail(sorted), x)
         ELSE <<x>> \o sorted

RECURSIVE SortSessions(_)
SortSessions(s) ==
    IF s = <<>> THEN <<>>
    ELSE InsertSession(SortSessions(SubSeq(s, 1, Len(s) - 1)), s[Len(s)])

\* lines 117-132
LoadAllSessions(dir) ==
    IF ~dir.exists THEN <<>> ELSE SortSessions(AllSessions(dir.dirs))

\* line 139: .slice(0, 500)
PromptCap == 500

\* line 136: s.firstPrompt is truthy (present and not the empty string)
HasPrompt(s) == "firstPrompt" \in DOMAIN s /\ s.firstPrompt # <<>>

\* `s.f || dflt` for a field that is absent or present
OrElse(o, f, dflt) == IF f \in DOMAIN o THEN o[f] ELSE dflt

\* a record that keeps the whole prompt
PromptOfUncut(s) ==
    [date     |-> s.created,
     prompt   |-> s.firstPrompt,
     summary  |-> OrElse(s, "summary", <<>>),
     project  |-> OrElse(s, "projectName", <<>>),
     messages |-> OrZero(s, "messageCount")]

\* lines 137-143
PromptOf(s) ==
    [date     |-> s.created,
     prompt   |-> Slice(s.firstPrompt, PromptCap),
     summary  |-> OrElse(s, "summary", <<>>),
     project  |-> OrElse(s, "projectName", <<>>),
     messages |-> OrZero(s, "messageCount")]

\* lines 134-144
RECURSIVE ExtractPrompts(_)
ExtractPrompts(ss) ==
    IF ss = <<>> THEN <<>>
    ELSE IF HasPrompt(Head(ss))
         THEN <<PromptOf(Head(ss))>> \o ExtractPrompts(Tail(ss))
         ELSE ExtractPrompts(Tail(ss))

----------------------------------------------------------------------------
(* The snapshots and session logs the script may find on disk.             *)

ModelKeys ==
    <<"claude-opus-4-6", "claude-sonnet-4-5-20250929", "claude-haiku-4-5-20251001",
      "claude-opus-4-5-20251101", "glm-4.6", "gemini-2.5-pro">>

WithKeys(us) == [i \in 1..Len(us) |-> [key |-> ModelKeys[i], value |-> us[i]]]

TokenFieldSeq ==
    <<"inputTokens", "outputTokens", "cacheReadInputTokens", "cacheCreationInputTokens">>

\* the counters of n usage records, numbered 1..4n
Slot(i, j) == 4 * (i - 1) + j

NonDecreasing(f) == \A p \in 2..Len(f) : f[p - 1] <= f[p]

Increasing(f) == \A p \in 2..Len(f) : f[p - 1] < f[p]

\* n usage records: counter s holds as many tokens as `tokens` puts there,
\* and the counters of `absent` are missing
UsageRecordsOf(n, tokens, absent) ==
    [i \in 1..n |->
        LET present == {j \in 1..4 : \A a \in DOMAIN absent : absent[a] # Slot(i, j)}
        IN  [f \in {TokenFieldSeq[j] : j \in present} |->
                LET j == CHOOSE j \in present : TokenFieldSeq[j] = f
                IN  Cardinality({k \in DOMAIN tokens : tokens[k] = Slot(i, j)})]]

\* tokens and absent describe one modelUsage: no duplicates are drawn, and no
\* token lies on an absent counter
WellPlaced(tokens, absent) ==
    /\ NonDecreasing(tokens)
    /\ Increasing(absent)
    /\ \A x \in DOMAIN tokens, y \in DOMAIN absent : tokens[x] # absent[y]

\* Scenario A of the specification
ScenarioA ==
    <<[key |-> "m1",
       value |-> [inputTokens |-> 1000000, outputTokens |-> 2000000,
                  cacheReadInputTokens |-> 0, cacheCreationInputTokens |-> 0]]>>

Dates ==
    <<"2026-01-01", "2026-01-02", "2026-01-03", "2026-01-04", "2026-01-05",
      "2026-01-06", "2026-01-07", "2026-01-08", "2026-01-09", "2026-01-10">>

Day(i, msgs) ==
    [date |-> Dates[i], messageCount |-> msgs, sessionCount |-> 1, toolCallCount |-> msgs]

\* Scenario B of the specification
ScenarioB ==
    <<[date |-> "2026-01-01", messageCount |-> 10, sessionCount |-> 1, toolCallCount |-> 3],
      [date |-> "2026-01-02", messageCount |-> 50, sessionCount |-> 2, toolCallCount |-> 7]>>

SampleUsage ==
    <<[key |-> "claude-sonnet-4-5-20250929",
       value |-> [inputTokens |-> 2, outputTokens |-> 1]],
      [key |-> "claude-opus-4-6",
       value |-> [inputTokens |-> 3, outputTokens |-> 4,
                  cacheReadInputTokens |-> 20, cacheCreationInputTokens |-> 5]]>>

SampleHours == [h \in {"9", "14", "23"} |-> IF h = "14" THEN 7 ELSE 2]

SampleProjects ==
    [exists |-> TRUE,
     dirs |-> <<
       [dir |-> <<"-", "a", "-", "b">>,
        index |-> [exists |-> TRUE, valid |-> TRUE,
                   json |-> [entries |-> <<
                     [created |-> 1, firstPrompt |-> <<"h", "i">>, messageCount |-> 4],
                     [created |-> 3]>>]]],
       [dir |-> <<"c">>,
        index |-> [exists |-> TRUE, valid |-> FALSE, json |-> << >>]],
       [dir |-> <<"-", "d">>,
        index |-> [exists |-> TRUE, valid |-> TRUE,
                   json |-> [entries |-> <<
                     [created |-> 2, firstPrompt |-> <<"y", "o">>,
                      summary |-> <<"s">>]>>]]]>>]

\* the project directories of the session logs that vary
ProjectDirs == << <<"-", "a", "-", "b">>, <<"c">> >>

\* what a project's sessions-index.json can be: missing, not JSON, JSON
\* without an entries field, or JSON with entries
IndexKinds == {"missing", "invalid", "noEntries", "entries"}

\* the i-th entry of the p-th project's index, created at c
SessionEntry(p, i, c) ==
    [sessionId |-> 10 * p + i, created |-> c, firstPrompt |-> <<"h", "i">>]

IndexFile(kind, es) ==
    [exists |-> kind # "missing",
     valid  |-> kind \in {"noEntries", "entries"},
     json   |-> IF kind = "entries" THEN [entries |-> es] ELSE [version |-> 1]]

\* fields a raw usage record can carry besides its counters
ExtraFields == {"id", "total"}

\* a usage record of t input tokens and 1 output token that also carries the
\* fields of `extra`
UsageWithExtras(t, extra) ==
    [f \in {"inputTokens", "outputTokens"} \cup extra |->
        IF f = "inputTokens" THEN t
        ELSE IF f = "outputTokens" THEN 1
        ELSE IF f = "id" THEN "legacy-id"
        ELSE 99]

\* a readable, well-formed stats-cache.json
StatsFile(json) == [ok |-> TRUE, json |-> json]

\* a stats-cache.json that is missing (readFileSync throws ENOENT) or is
\* not JSON (JSON.parse throws SyntaxError)
BadStatsFile(fault) == [ok |-> FALSE, fault |-> fault]

Snapshot(mu, da) ==
    [modelUsage |-> mu, dailyActivity |-> da, hourCounts |-> SampleHours,
     totalMessages |-> 60, totalSessions |-> 3, lastComputedDate |-> "2026-01-02"]

\* a day with its own messageCount and sessionCount
DayOf(i, msgs, sess) ==
    [date |-> Dates[i], messageCount |-> msgs, sessionCount |-> sess, toolCallCount |-> msgs]

\* a day record with the counters of `has` only, each holding its value in
\* counts
SparseDay(i, has, counts) ==
    [f \in {"date"} \cup has |-> IF f = "date" THEN Dates[i] ELSE counts[f]]

DayCounters == {"messageCount", "sessionCount", "toolCallCount"}

\* the lifetime totals a snapshot can supply: none, 0, or a positive number
SuppliedTotals == <<[has |-> FALSE, value |-> 0], [has |-> TRUE, value |-> 0],
                    [has |-> TRUE, value |-> 60]>>

\* a snapshot whose totalMessages and totalSessions are supplied as tm and
\* ts say
SnapshotTotals(da, tm, ts) ==
    [f \in {"modelUsage", "dailyActivity", "hourCounts", "lastComputedDate"}
            \cup (IF tm.has THEN {"totalMessages"} ELSE {})
            \cup (IF ts.has THEN {"totalSessions"} ELSE {}) |->
        CASE f = "modelUsage" -> SampleUsage
          [] f = "dailyActivity" -> da
          [] f = "hourCounts" -> SampleHours
          [] f = "lastComputedDate" -> "2026-01-02"
          [] f = "totalMessages" -> tm.value
          [] f = "totalSessions" -> ts.value]

\* a snapshot without a modelUsage field
SnapshotNoUsage(da) ==
    [dailyActivity |-> da, hourCounts |-> SampleHours,
     totalMessages |-> 60, totalSessions |-> 3, lastComputedDate |-> "2026-01-02"]

\* a snapshot whose modelUsage is a JSON value of the given type, not an
\* object
SnapshotBadUsage(type, da) ==
    [modelUsageType |-> type, dailyActivity |-> da, hourCounts |-> SampleHours,
     totalMessages |-> 60, totalSessions |-> 3, lastComputedDate |-> "2026-01-02"]

\* the hours of the day that the snapshots with varying hourCounts count
HourKeys == {"0", "13", "23"}

SnapshotHours(da, hc) ==
    [modelUsage |-> SampleUsage, dailyActivity |-> da, hourCounts |-> hc,
     totalMessages |-> 60, totalSessions |-> 3, lastComputedDate |-> "2026-01-02"]

\* the same without an hourCounts field
SnapshotNoHours(da) ==
    [modelUsage |-> SampleUsage, dailyActivity |-> da,
     totalMessages |-> 60, totalSessions |-> 3, lastComputedDate |-> "2026-01-02"]

\* the same without a dailyActivity field
SnapshotNoDaily(mu) ==
    [modelUsage |-> mu, hourCounts |-> SampleHours,
     totalMessages |-> 60, totalSessions |-> 3, lastComputedDate |-> "2026-01-02"]

----------------------------------------------------------------------------
(* The script, top to bottom.                                              *)

\* nothing computed yet
FreshScript ==
    /\ pc = "load"
    /\ error = "none"
    /\ stats = << >>
    /\ sessions = <<>>
    /\ models = <<>>
    /\ totalTokens = 0
    /\ totalInput = 0
    /\ totalOutput = 0
    /\ totalCacheRead = 0
    /\ totalCacheCreate = 0
    /\ costEstimate = FracOfInt(0)
    /\ daily = <<>>
    /\ totalMessages = 0
    /\ totalSessions = 0
    /\ totalToolCalls = 0
    /\ dayCount = 0
    /\ avgMessagesPerDay = 0
    /\ peakDay = NoPeak
    /\ topDays = <<>>
    /\ hourCounts = << >>
    /\ maxHourCount = 0
    /\ prompts = <<>>
    /\ maxDailyMsg = 0
    /\ written = <<>>
    /\ dataJson = << >>
    /\ pushed = FALSE
    /\ clock = 1
    /\ generated = 0
    /\ previous = <<>>
    /\ bars = NoBars

Fresh == projectsDir = SampleProjects /\ FreshScript

\* neither fmt nor pct is being called
NoCall == call = [fn |-> "none"] /\ result = <<>>

\* The snapshots that differ in modelUsage: every modelUsage of at most
\* MaxModels keys whose counters add up to at most MaxTokens, at most
\* MaxAbsent of them absent, and Scenario A.
Init ==
    /\ \/ \E n \in 0..MaxModels, k \in 0..MaxTokens, a \in 0..MaxAbsent :
             \E tokens \in [1..k -> 1..(4 * n)], absent \in [1..a -> 1..(4 * n)] :
                 /\ WellPlaced(tokens, absent)
                 /\ statsFile = StatsFile(Snapshot(
                        WithKeys(UsageRecordsOf(n, tokens, absent)), ScenarioB))
       \/ statsFile = StatsFile(Snapshot(ScenarioA, ScenarioB))
    /\ argv = {}
    /\ Fresh
    /\ NoCall

\* The snapshots that differ in dailyActivity: every dailyActivity of at
\* most MaxDays records, one per date in date order, with messageCount at
\* most MaxMsg; Scenario B; and a snapshot without dailyActivity.
InitDaily ==
    /\ \/ \E n \in 0..MaxDays : \E c \in [1..n -> 0..MaxMsg] :
             statsFile = StatsFile(Snapshot(SampleUsage, [i \in 1..n |-> Day(i, c[i])]))
       \/ statsFile = StatsFile(Snapshot(SampleUsage, ScenarioB))
       \/ statsFile = StatsFile(SnapshotNoDaily(SampleUsage))
    /\ argv = {}
    /\ Fresh
    /\ NoCall

\* The snapshots that differ in hourCounts and dailyActivity: hourCounts
\* counts any of the hours of HourKeys up to MaxHour, or is absent, and
\* dailyActivity has at most MaxFewDays records; and snapshots whose counts
\* are 1 next to multiples of 250.
InitHours ==
    /\ \E n \in 0..MaxFewDays : \E c \in [1..n -> 0..MaxMsg] :
          \/ \E hs \in SUBSET HourKeys : \E hc \in [hs -> 0..MaxHour] :
                statsFile = StatsFile(SnapshotHours([i \in 1..n |-> Day(i, c[i])], hc))
          \/ statsFile = StatsFile(SnapshotNoHours([i \in 1..n |-> Day(i, c[i])]))
          \/ statsFile = StatsFile(SnapshotHours(
                 [i \in 1..n |-> Day(i, IF c[i] = 0 THEN 1 ELSE 250 * c[i])],
                 [h \in HourKeys |-> IF h = "13" THEN 1 ELSE 250 * (n + 1)]))
    /\ argv = {}
    /\ Fresh
    /\ NoCall

\* The snapshots that differ in the lifetime totals: totalMessages and
\* totalSessions are each absent, 0 or 60, over every dailyActivity of at
\* most MaxFewDays records with messageCount at most MaxMsg and sessionCount
\* at most MaxCount.
InitTotals ==
    /\ \E n \in 0..MaxFewDays :
          \E c \in [1..n -> 0..MaxMsg], e \in [1..n -> 0..MaxCount], tm, ts \in 1..3 :
             statsFile = StatsFile(SnapshotTotals([i \in 1..n |-> DayOf(i, c[i], e[i])],
                                                  SuppliedTotals[tm], SuppliedTotals[ts]))
    /\ argv = {}
    /\ Fresh
    /\ NoCall

\* The snapshots whose day records lack counters: every dailyActivity of at
\* most MaxFewDays records, each with any of its three counters absent,
\* messageCount at most MaxCount, the lifetime totals both absent or both
\* supplied.
InitSparse ==
    /\ \E n \in 0..MaxFewDays :
          \E has \in [1..n -> SUBSET DayCounters], c \in [1..n -> 0..MaxCount], t \in {1, 3} :
             statsFile = StatsFile(SnapshotTotals(
                 [i \in 1..n |-> SparseDay(i, has[i],
                                           [messageCount |-> c[i], sessionCount |-> 1,
                                            toolCallCount |-> 1])],
                 SuppliedTotals[t], SuppliedTotals[t]))
    /\ argv = {}
    /\ Fresh
    /\ NoCall

\* The runs that differ in what the stats file is and in the flags: the
\* file is missing, is not JSON, lacks modelUsage, has a modelUsage that is
\* null, a number or a boolean, or is well-formed; --push is given or not;
\* dailyActivity has at most MaxFewDays records.
InitInput ==
    /\ \/ \E fault \in {"ENOENT", "SyntaxError"} : statsFile = BadStatsFile(fault)
       \/ \E n \in 0..MaxFewDays : \E c \in [1..n -> 0..MaxMsg] :
             LET da == [i \in 1..n |-> Day(i, c[i])]
             IN  \/ statsFile = StatsFile(SnapshotNoUsage(da))
                 \/ \E type \in {"null", "number", "boolean"} :
                       statsFile = StatsFile(SnapshotBadUsage(type, da))
                 \/ statsFile = StatsFile(Snapshot(SampleUsage, da))
    /\ argv \in SUBSET {"--push"}
    /\ Fresh
    /\ NoCall

\* lines 20-21
LoadStats ==
    /\ pc = "load"
    /\ IF statsFile.ok
       THEN stats' = statsFile.json /\ pc' = "sessions" /\ error' = error
       ELSE stats' = stats /\ pc' = "crashed" /\ error' = statsFile.fault
    /\ UNCHANGED <<clock, generated, previous, bars, call, result, dataJson, statsFile, projectsDir, argv, sessions, models, totalTokens,
                   totalInput, totalOutput, totalCacheRead, totalCacheCreate,
                   costEstimate, daily, totalMessages, totalSessions,
                   totalToolCalls, dayCount, avgMessagesPerDay, peakDay, topDays,
                   hourCounts, maxHourCount, prompts, maxDailyMsg, written, pushed>>

\* lines 23-26
LoadSessions ==
    /\ pc = "sessions"
    /\ sessions' = LoadAllSessions(projectsDir)
    /\ pc' = "models"
    /\ UNCHANGED <<clock, generated, previous, bars, call, result, dataJson, statsFile, projectsDir, argv, error, stats, models, totalTokens,
                   totalInput, totalOutput, totalCacheRead, totalCacheCreate,
                   costEstimate, daily, totalMessages, totalSessions,
                   totalToolCalls, dayCount, avgMessagesPerDay, peakDay, topDays,
                   hourCounts, maxHourCount, prompts, maxDailyMsg, written, pushed>>

\* a ranking that reads the first model, which an empty list does not have
ComputeModelsReadingFirst ==
    /\ pc = "models"
    /\ IF ~EntriesThrows(stats) /\ UsageOf(stats) # <<>>
       THEN models' = Models(UsageOf(stats)) /\ pc' = "totals" /\ error' = error
       ELSE models' = models /\ pc' = "crashed" /\ error' = "TypeError"
    /\ UNCHANGED <<clock, generated, previous, bars, call, result, dataJson, statsFile, projectsDir, argv, stats, sessions, totalTokens,
                   totalInput, totalOutput, totalCacheRead, totalCacheCreate,
                   costEstimate, daily, totalMessages, totalSessions,
                   totalToolCalls, dayCount, avgMessagesPerDay, peakDay, topDays,
                   hourCounts, maxHourCount, prompts, maxDailyMsg, written, pushed>>

\* lines 30-34: Object.entries(undefined) and Object.entries(null) throw
ComputeModels ==
    /\ pc = "models"
    /\ IF ~EntriesThrows(stats)
       THEN models' = Models(UsageOf(stats)) /\ pc' = "totals" /\ error' = error
       ELSE models' = models /\ pc' = "crashed" /\ error' = "TypeError"
    /\ UNCHANGED <<clock, generated, previous, bars, call, result, dataJson, statsFile, projectsDir, argv, stats, sessions, totalTokens,
                   totalInput, totalOutput, totalCacheRead, totalCacheCreate,
                   costEstimate, daily, totalMessages, totalSessions,
                   totalToolCalls, dayCount, avgMessagesPerDay, peakDay, topDays,
                   hourCounts, maxHourCount, prompts, maxDailyMsg, written, pushed>>

\* lines 36-40
ComputeTotals ==
    /\ pc = "totals"
    /\ totalTokens' = TotalTokens(models)
    /\ totalInput' = ReduceSum(models, "inputTokens", 0)
    /\ totalOutput' = ReduceSum(models, "outputTokens", 0)
    /\ totalCacheRead' = ReduceSum(models, "cacheReadInputTokens", 0)
    /\ totalCacheCreate' = ReduceSum(models, "cacheCreationInputTokens", 0)
    /\ pc' = "cost"
    /\ UNCHANGED <<clock, generated, previous, bars, call, result, dataJson, statsFile, projectsDir, argv, error, stats, sessions, models,
                   costEstimate, daily, totalMessages, totalSessions,
                   totalToolCalls, dayCount, avgMessagesPerDay, peakDay, topDays,
                   hourCounts, maxHourCount, prompts, maxDailyMsg, written, pushed>>

\* lines 42-43
ComputeCost ==
    /\ pc = "cost"
    /\ costEstimate' = CostEstimate(totalInput, totalOutput, totalCacheRead, totalCacheCreate)
    /\ pc' = "daily"
    /\ UNCHANGED <<clock, generated, previous, bars, call, result, dataJson, statsFile, projectsDir, argv, error, stats, sessions, models, totalTokens,
                   totalInput, totalOutput, totalCacheRead, totalCacheCreate,
                   daily, totalMessages, totalSessions,
                   totalToolCalls, dayCount, avgMessagesPerDay, peakDay, topDays,
                   hourCounts, maxHourCount, prompts, maxDailyMsg, written, pushed>>

\* lines 45-50
ComputeDaily ==
    /\ pc = "daily"
    /\ daily' = Daily(stats)
    /\ totalMessages' = TotalOr(stats, "totalMessages", Daily(stats), "messageCount")
    /\ totalSessions' = TotalOr(stats, "totalSessions", Daily(stats), "sessionCount")
    /\ totalToolCalls' = TotalToolCalls(Daily(stats), 0)
    /\ dayCount' = Len(Daily(stats))
    /\ avgMessagesPerDay' = AvgMessagesPerDay(totalMessages', dayCount')
    /\ pc' = "peak"
    /\ UNCHANGED <<clock, generated, previous, bars, call, result, dataJson, statsFile, projectsDir, argv, error, stats, sessions, models, totalTokens,
                   totalInput, totalOutput, totalCacheRead, totalCacheCreate,
                   costEstimate, peakDay, topDays,
                   hourCounts, maxHourCount, prompts, maxDailyMsg, written, pushed>>

\* lines 52-53
ComputePeakDay ==
    /\ pc = "peak"
    /\ peakDay' = PeakDay(daily)
    /\ pc' = "topDays"
    /\ UNCHANGED <<clock, generated, previous, bars, call, result, dataJson, statsFile, projectsDir, argv, error, stats, sessions, models, totalTokens,
                   totalInput, totalOutput, totalCacheRead, totalCacheCreate,
                   costEstimate, daily, totalMessages, totalSessions,
                   totalToolCalls, dayCount, avgMessagesPerDay, topDays,
                   hourCounts, maxHourCount, prompts, maxDailyMsg, written, pushed>>

\* a topDays that sorts daily itself, not a copy
ComputeTopDaysInPlace ==
    /\ pc = "topDays"
    /\ \E sorted \in TopDaysOutcomes(daily) : topDays' = sorted
    /\ daily' = SortDays(daily)
    /\ pc' = "hours"
    /\ UNCHANGED <<clock, generated, previous, bars, call, result, dataJson, statsFile, projectsDir, argv, error, stats, sessions, models, totalTokens,
                   totalInput, totalOutput, totalCacheRead, totalCacheCreate,
                   costEstimate, totalMessages, totalSessions,
                   totalToolCalls, dayCount, avgMessagesPerDay, peakDay,
                   hourCounts, maxHourCount, prompts, maxDailyMsg, written, pushed>>

\* lines 55-56
ComputeTopDays ==
    /\ pc = "topDays"
    /\ \E sorted \in TopDaysOutcomes(daily) : topDays' = sorted
    /\ pc' = "hours"
    /\ UNCHANGED <<clock, generated, previous, bars, call, result, dataJson, statsFile, projectsDir, argv, error, stats, sessions, models, totalTokens,
                   totalInput, totalOutput, totalCacheRead, totalCacheCreate,
                   costEstimate, daily, totalMessages, totalSessions,
                   totalToolCalls, dayCount, avgMessagesPerDay, peakDay,
                   hourCounts, maxHourCount, prompts, maxDailyMsg, written, pushed>>

\* lines 58-60
ComputeHours ==
    /\ pc = "hours"
    /\ hourCounts' = HourCounts(stats)
    /\ maxHourCount' = MaxHourCount(HourCounts(stats))
    /\ pc' = "prompts"
    /\ UNCHANGED <<clock, generated, previous, bars, call, result, dataJson, statsFile, projectsDir, argv, error, stats, sessions, models, totalTokens,
                   totalInput, totalOutput, totalCacheRead, totalCacheCreate,
                   costEstimate, daily, totalMessages, totalSessions,
                   totalToolCalls, dayCount, avgMessagesPerDay, peakDay, topDays,
                   prompts, maxDailyMsg, written, pushed>>

\* lines 67-69
ComputePrompts ==
    /\ pc = "prompts"
    /\ prompts' = ExtractPrompts(sessions)
    /\ pc' = "clock"
    /\ UNCHANGED <<clock, generated, previous, bars, call, result, dataJson, statsFile, projectsDir, argv, error, stats, sessions, models, totalTokens,
                   totalInput, totalOutput, totalCacheRead, totalCacheCreate,
                   costEstimate, daily, totalMessages, totalSessions,
                   totalToolCalls, dayCount, avgMessagesPerDay, peakDay, topDays,
                   hourCounts, maxHourCount, maxDailyMsg, written, pushed>>

\* lines 73-78: new Date() reads the system time
ReadClock ==
    /\ pc = "clock"
    /\ generated' = clock
    /\ pc' = "index"
    /\ UNCHANGED <<clock, previous, bars, call, result, dataJson, statsFile, projectsDir, argv, error,
                   stats, sessions, models, totalTokens,
                   totalInput, totalOutput, totalCacheRead, totalCacheCreate,
                   costEstimate, daily, totalMessages, totalSessions,
                   totalToolCalls, dayCount, avgMessagesPerDay, peakDay, topDays,
                   hourCounts, maxHourCount, prompts, maxDailyMsg, written, pushed>>

\* lines 199 and 232: d.messageCount.toLocaleString() throws on a record
\* without messageCount
RendersDays(ds) == \A i \in 1..Len(ds) : "messageCount" \in DOMAIN ds[i]

\* lines 80-82 with generateHTML (lines 186-468); the write can fail
WriteIndex ==
    /\ pc = "index"
    /\ \E writeOk \in BOOLEAN :
          /\ maxDailyMsg' = MaxDailyMsg(daily)
          /\ IF RendersDays(daily)
             THEN IF writeOk
                  THEN /\ written' = Append(written, "index.html")
                       /\ pc' = "promptsHtml"
                       /\ error' = error
                  ELSE written' = written /\ pc' = "crashed" /\ error' = "WriteError"
             ELSE /\ written' = written
                  /\ pc' = "crashed"
                  /\ error' = "TypeError"
    /\ bars' = IF RendersDays(daily)
               THEN [daily |-> DailyBars(daily, MaxDailyMsg(daily)),
                     hours |-> HourBars(hourCounts, maxHourCount)]
               ELSE bars
    /\ UNCHANGED <<clock, generated, previous, call, result, dataJson, statsFile, projectsDir, argv, stats, sessions, models, totalTokens,
                   totalInput, totalOutput, totalCacheRead, totalCacheCreate,
                   costEstimate, daily, totalMessages, totalSessions,
                   totalToolCalls, dayCount, avgMessagesPerDay, peakDay, topDays,
                   hourCounts, maxHourCount, prompts, pushed>>

\* a write that also trims topDays in place (splice for slice)
WriteArtifactTrimming(at, name, next) ==
    /\ pc = at
    /\ \E writeOk \in BOOLEAN :
          IF writeOk
          THEN written' = Append(written, name) /\ pc' = next /\ error' = error
          ELSE written' = written /\ pc' = "crashed" /\ error' = "WriteError"
    /\ topDays' = Slice(topDays, 1)
    /\ UNCHANGED <<clock, generated, previous, bars, call, result, statsFile, projectsDir, argv, stats, sessions, models, totalTokens,
                   totalInput, totalOutput, totalCacheRead, totalCacheCreate,
                   costEstimate, daily, totalMessages, totalSessions,
                   totalToolCalls, dayCount, avgMessagesPerDay, peakDay,
                   hourCounts, maxHourCount, prompts, maxDailyMsg, pushed>>

\* one writeFileSync of lines 84-105, which can fail
WriteArtifact(at, name, next) ==
    /\ pc = at
    /\ \E writeOk \in BOOLEAN :
          IF writeOk
          THEN written' = Append(written, name) /\ pc' = next /\ error' = error
          ELSE written' = written /\ pc' = "crashed" /\ error' = "WriteError"
    /\ UNCHANGED <<clock, generated, previous, bars, call, result, statsFile, projectsDir, argv, stats, sessions, models, totalTokens,
                   totalInput, totalOutput, totalCacheRead, totalCacheCreate,
                   costEstimate, daily, totalMessages, totalSessions,
                   totalToolCalls, dayCount, avgMessagesPerDay, peakDay, topDays,
                   hourCounts, maxHourCount, prompts, maxDailyMsg, pushed>>

\* lines 84-86
WritePromptsHtml ==
    /\ WriteArtifact("promptsHtml", "prompts.html", "dataJson")
    /\ dataJson' = dataJson

\* lines 88-101
WriteDataJson ==
    /\ WriteArtifact("dataJson", "data.json", "promptsJson")
    /\ dataJson' = IF written' # written THEN DataJson ELSE dataJson

\* lines 103-105
WritePromptsJson ==
    /\ WriteArtifact("promptsJson", "prompts.json", "push")
    /\ dataJson' = dataJson

PushUnconditional ==
    /\ pc = "push"
    /\ pushed' = TRUE
    /\ \E gitOk \in BOOLEAN :
          IF gitOk THEN pc' = "done" /\ error' = error
          ELSE pc' = "crashed" /\ error' = "ExecError"
    /\ UNCHANGED <<clock, generated, previous, bars, call, result, dataJson, statsFile, projectsDir, argv, stats, sessions, models, totalTokens,
                   totalInput, totalOutput, totalCacheRead, totalCacheCreate,
                   costEstimate, daily, totalMessages, totalSessions,
                   totalToolCalls, dayCount, avgMessagesPerDay, peakDay, topDays,
                   hourCounts, maxHourCount, prompts, maxDailyMsg, written>>

\* lines 109-113: execSync throws when the git command fails
Push ==
    /\ pc = "push"
    /\ IF "--push" \in argv
       THEN /\ pushed' = TRUE
            /\ \E gitOk \in BOOLEAN :
                  IF gitOk THEN pc' = "done" /\ error' = error
                  ELSE pc' = "crashed" /\ error' = "ExecError"
       ELSE pushed' = pushed /\ pc' = "done" /\ error' = error
    /\ UNCHANGED <<clock, generated, previous, bars, call, result, dataJson, statsFile, projectsDir, argv, stats, sessions, models, totalTokens,
                   totalInput, totalOutput, totalCacheRead, totalCacheCreate,
                   costEstimate, daily, totalMessages, totalSessions,
                   totalToolCalls, dayCount, avgMessagesPerDay, peakDay, topDays,
                   hourCounts, maxHourCount, prompts, maxDailyMsg, written>>

Next ==
    \/ LoadStats
    \/ LoadSessions
    \/ ComputeModels
    \/ ComputeTotals
    \/ ComputeCost
    \/ ComputeDaily
    \/ ComputePeakDay
    \/ ComputeTopDays
    \/ ComputeHours
    \/ ComputePrompts
    \/ ReadClock
    \/ WriteIndex
    \/ WritePromptsHtml
    \/ WriteDataJson
    \/ WritePromptsJson
    \/ Push

Spec == Init /\ [][Next]_vars

SpecDaily == InitDaily /\ [][Next]_vars

SpecHours == InitHours /\ [][Next]_vars

SpecTotals == InitTotals /\ [][Next]_vars

SpecSparse == InitSparse /\ [][Next]_vars

SpecInput == InitInput /\ [][Next]_vars

\* The snapshots whose usage records carry other fields: every modelUsage
\* of 1..MaxModels keys, each record with at most MaxTokens input tokens and
\* any of the fields of ExtraFields.
InitExtras ==
    /\ \E n \in 1..MaxModels :
          \E t \in [1..n -> 0..MaxTokens], extra \in [1..n -> SUBSET ExtraFields] :
             statsFile = StatsFile(Snapshot(
                 WithKeys([i \in 1..n |-> UsageWithExtras(t[i], extra[i])]), ScenarioB))
    /\ argv = {}
    /\ Fresh
    /\ NoCall

SpecExtras == InitExtras /\ [][Next]_vars

\* The runs that differ in the session logs: the projects directory is
\* missing, is empty, or holds the directories of ProjectDirs, each with an
\* index of any kind of IndexKinds and at most MaxEntries entries created at
\* times up to MaxCreated.
InitSessions ==
    /\ \/ projectsDir = [exists |-> FALSE, dirs |-> <<>>]
       \/ projectsDir = [exists |-> TRUE, dirs |-> <<>>]
       \/ \E kinds \in [1..Len(ProjectDirs) -> IndexKinds],
             n \in [1..Len(ProjectDirs) -> 0..MaxEntries] :
             \E c \in [1..Len(ProjectDirs) -> [1..MaxEntries -> 1..MaxCreated]] :
                projectsDir =
                    [exists |-> TRUE,
                     dirs |-> [p \in 1..Len(ProjectDirs) |->
                        [dir |-> ProjectDirs[p],
                         index |-> IndexFile(kinds[p],
                                     [i \in 1..n[p] |-> SessionEntry(p, i, c[p][i])])]]]
    /\ statsFile = StatsFile(Snapshot(SampleUsage, <<Day(1, 1)>>))
    /\ argv = {}
    /\ FreshScript
    /\ NoCall

SpecSessions == InitSessions /\ [][Next]_vars

\* The runs that are repeated: a well-formed snapshot whose dailyActivity has
\* at most MaxFewDays records, with or without --push.
InitRerun ==
    /\ \E n \in 0..MaxFewDays : \E c \in [1..n -> 0..MaxMsg] :
          statsFile = StatsFile(Snapshot(SampleUsage, [i \in 1..n |-> Day(i, c[i])]))
    /\ argv \in SUBSET {"--push"}
    /\ Fresh
    /\ NoCall

\* the generator is started again on the same stats snapshot and session
\* logs, at the same or a later time (at most MaxRuns runs, up to MaxClock)
Rerun ==
    /\ pc = "done"
    /\ Len(previous) < MaxRuns - 1
    /\ previous' = Append(previous, dataJson)
    /\ \E t \in clock..MaxClock : clock' = t
    /\ pc' = "load"
    /\ error' = "none"
    /\ stats' = << >>
    /\ sessions' = <<>>
    /\ models' = <<>>
    /\ totalTokens' = 0
    /\ totalInput' = 0
    /\ totalOutput' = 0
    /\ totalCacheRead' = 0
    /\ totalCacheCreate' = 0
    /\ costEstimate' = FracOfInt(0)
    /\ daily' = <<>>
    /\ totalMessages' = 0
    /\ totalSessions' = 0
    /\ totalToolCalls' = 0
    /\ dayCount' = 0
    /\ avgMessagesPerDay' = 0
    /\ peakDay' = NoPeak
    /\ topDays' = <<>>
    /\ hourCounts' = << >>
    /\ maxHourCount' = 0
    /\ prompts' = <<>>
    /\ maxDailyMsg' = 0
    /\ written' = <<>>
    /\ dataJson' = << >>
    /\ pushed' = FALSE
    /\ generated' = 0
    /\ bars' = NoBars
    /\ UNCHANGED <<statsFile, projectsDir, argv, call, result>>

NextRerun ==
    \/ Next
    \/ Rerun

SpecRerun == InitRerun /\ [][NextRerun]_vars

\* the variables of the script, which a call of a formatter leaves alone
scriptVars ==
    <<statsFile, projectsDir, argv, pc, error, stats, sessions, models, totalTokens,
      totalInput, totalOutput, totalCacheRead, totalCacheCreate,
      costEstimate, daily, totalMessages, totalSessions, totalToolCalls,
      dayCount, avgMessagesPerDay, peakDay, topDays, hourCounts,
      maxHourCount, prompts, maxDailyMsg, written, dataJson, pushed,
      clock, generated, previous, bars>>

\* The calls of the formatters: fmt on the integers around its thresholds
\* (up to MaxOffset away, and on up to MaxHalfSteps half steps of the last
\* printed digit, where toFixed has to round a tie), on the small integers
\* and on the largest 32-bit integer; pct on the parts 0..MaxPart and 50 and
\* the wholes 0..MaxWhole, 16, 80 and 200.
InitFormat ==
    /\ statsFile = StatsFile(Snapshot(SampleUsage, ScenarioB))
    /\ argv = {}
    /\ Fresh
    /\ result = <<>>
    /\ \/ \E n \in 0..MaxOffset : call = [fn |-> "fmt", n |-> n]
       \/ \E t \in {Thousand, Million, Billion}, o \in (0 - MaxOffset)..MaxOffset :
             call = [fn |-> "fmt", n |-> t + o]
       \/ \E t \in {Thousand, Million, Billion}, j \in 0..MaxHalfSteps :
             call = [fn |-> "fmt", n |-> t + j * (t \div (IF t = Thousand THEN 20 ELSE 200))]
       \/ \E t \in {Million, Billion}, j \in 1..MaxHalfSteps :
             call = [fn |-> "fmt", n |-> t - j * (IF t = Million THEN 50 ELSE 5000)]
       \/ call = [fn |-> "fmt", n |-> 2147483647]
       \/ \E part \in 0..MaxPart \cup {50}, whole \in 0..MaxWhole \cup {16, 80, 200} :
             call = [fn |-> "pct", part |-> part, whole |-> whole]

\* lines 146-151: a call of fmt returns
CallFmt ==
    /\ call.fn = "fmt"
    /\ result = <<>>
    /\ \E t \in Fmt(call.n) : result' = t
    /\ UNCHANGED <<call, scriptVars>>

\* lines 157-159: a call of pct returns
CallPct ==
    /\ call.fn = "pct"
    /\ result = <<>>
    /\ \E t \in Pct(call.part, call.whole) : result' = t
    /\ UNCHANGED <<call, scriptVars>>

NextFormat ==
    \/ CallFmt
    \/ CallPct

SpecFormat == InitFormat /\ [][NextFormat]_vars

\* what a session's firstPrompt can be: absent, the empty string, a short
\* string, or a string one character longer than PromptCap
PromptKinds == {"absent", "empty", "short", "long"}

FirstPrompt(kind) ==
    IF kind = "empty" THEN <<>>
    ELSE IF kind = "short" THEN <<"h", "i">>
    ELSE [j \in 1..(PromptCap + 1) |-> IF j <= PromptCap THEN "a" ELSE "b"]

OptionalFields == {"summary", "projectName", "messageCount"}

\* the i-th session of a call: created at i, with a firstPrompt of the given
\* kind and the optional fields of `has`
SessionOf(i, kind, has) ==
    [f \in {"created"} \cup (IF kind = "absent" THEN {} ELSE {"firstPrompt"}) \cup has |->
        IF f = "created" THEN i
        ELSE IF f = "firstPrompt" THEN FirstPrompt(kind)
        ELSE IF f = "summary" THEN <<"s">>
        ELSE IF f = "projectName" THEN <<"p">>
        ELSE 7]

\* The calls of extractPrompts: on every list of at most MaxSessions
\* sessions, each with any kind of firstPrompt and any of the optional
\* fields.
InitPrompts ==
    /\ statsFile = StatsFile(Snapshot(SampleUsage, ScenarioB))
    /\ argv = {}
    /\ Fresh
    /\ result = <<>>
    /\ \E n \in 0..MaxSessions :
          \E kinds \in [1..n -> PromptKinds], has \in [1..n -> SUBSET OptionalFields] :
             call = [fn |-> "extractPrompts",
                     sessions |-> [i \in 1..n |-> SessionOf(i, kinds[i], has[i])]]

\* lines 134-144: a call of extractPrompts returns; the returned list is
\* held as the one element of result
CallExtractPrompts ==
    /\ call.fn = "extractPrompts"
    /\ result = <<>>
    /\ result' = <<ExtractPrompts(call.sessions)>>
    /\ UNCHANGED <<call, scriptVars>>

NextPrompts == CallExtractPrompts

SpecPrompts == InitPrompts /\ [][NextPrompts]_vars

\* the script's position is past the statements of step `at`
Steps ==
    <<"load", "sessions", "models", "totals", "cost", "daily", "peak", "topDays",
      "hours", "prompts", "clock", "index", "promptsHtml", "dataJson", "promptsJson",
      "push", "done">>

StepIndex(p) == CHOOSE i \in 1..Len(Steps) : Steps[i] = p

Past(at) == pc # "crashed" /\ StepIndex(pc) > StepIndex(at)

----------------------------------------------------------------------------
(* Properties of the model aggregator and the cost estimator, checked      *)
(* under Spec.                                                             *)

\* the modelUsage mapping of the snapshot on disk
RawUsage == statsFile.json.modelUsage

\* the dailyActivity of the snapshot on disk, if it has one
RawDaily ==
    IF "dailyActivity" \in DOMAIN statsFile.json THEN statsFile.json.dailyActivity ELSE <<>>

\* the hourCounts of the snapshot on disk, if it has one
RawHours ==
    IF "hourCounts" \in DOMAIN statsFile.json THEN statsFile.json.hourCounts ELSE << >>

\* the sum of counter f over the raw usage records, an absent counter as 0
FieldSum(mu, f) ==
    SumSeq([i \in 1..Len(mu) |-> IF f \in DOMAIN mu[i].value THEN mu[i].value[f] ELSE 0])

\* the position of key id in the mapping
KeyIndex(mu, id) == CHOOSE j \in 1..Len(mu) : mu[j].key = id

\* C1: once the totals are computed, totalTokens is the sum over all models
\* of the four counters (absent as 0), each grand total is the sum of its
\* category over all models, and totalTokens is the sum of the four grand
\* totals.
C1_TotalsConsistent ==
    Past("totals") =>
        /\ totalInput = FieldSum(RawUsage, "inputTokens")
        /\ totalOutput = FieldSum(RawUsage, "outputTokens")
        /\ totalCacheRead = FieldSum(RawUsage, "cacheReadInputTokens")
        /\ totalCacheCreate = FieldSum(RawUsage, "cacheCreationInputTokens")
        /\ totalTokens = FieldSum(RawUsage, "inputTokens") + FieldSum(RawUsage, "outputTokens")
                         + FieldSum(RawUsage, "cacheReadInputTokens")
                         + FieldSum(RawUsage, "cacheCreationInputTokens")
        /\ totalTokens = totalInput + totalOutput + totalCacheRead + totalCacheCreate

\* two models with tokens, one of them with an absent counter
C1_Witness ==
    /\ Past("totals")
    /\ Len(RawUsage) = 2
    /\ \A i \in 1..2 : models[i].total > 0
    /\ \E i \in 1..2 : DOMAIN RawUsage[i].value # TokenFields

\* C2: the ranked models are in descending order of total, two models of
\* equal total stand in the order of their keys in modelUsage, and ranking
\* the same mapping again gives the same list.
C2_RankedStable ==
    Past("models") =>
        /\ \A i \in 1..(Len(models) - 1) :
              \/ models[i].total > models[i + 1].total
              \/ /\ models[i].total = models[i + 1].total
                 /\ KeyIndex(RawUsage, models[i].id) < KeyIndex(RawUsage, models[i + 1].id)
        /\ Models(RawUsage) = models

\* two models tie on a total that is not 0
C2_Witness ==
    /\ Past("models")
    /\ Len(models) = 2
    /\ models[1].total = models[2].total
    /\ models[1].total > 0
    /\ models[1] # models[2]

\* C3: every key of modelUsage has exactly one entry in models, models has
\* no other entry, and an entry whose total is 0 is kept.
C3_OneEntryPerKey ==
    Past("models") =>
        /\ Len(models) = Len(RawUsage)
        /\ \A j \in 1..Len(RawUsage) :
              Cardinality({i \in 1..Len(models) : models[i].id = RawUsage[j].key}) = 1
        /\ \A i \in 1..Len(models) : \E j \in 1..Len(RawUsage) : models[i].id = RawUsage[j].key

\* a model without tokens is ranked behind one with tokens
C3_Witness ==
    /\ Past("models")
    /\ Len(models) = 2
    /\ models[1].total > 0
    /\ models[2].total = 0

\* the cost of the four totals under the rate table 15 / 75 / 1.5 / 3.75
\* dollars per million tokens
LinearCost(tIn, tOut, tRead, tCreate) ==
    FracDivInt(
        FracAdd(FracAdd(FracOfInt(15 * tIn), FracOfInt(75 * tOut)),
                FracAdd(Frac(3 * tRead, 2), Frac(15 * tCreate, 4))),
        1000000)

\* the same tokens, all under one model identifier
Collapsed(mu) ==
    <<[key |-> "all",
       value |-> [f \in TokenFields |-> FieldSum(mu, f)]]>>

\* what lines 30-43 make of a modelUsage mapping
CostOfUsage(mu) ==
    LET ms == Models(mu)
    IN  CostEstimate(ReduceSum(ms, "inputTokens", 0), ReduceSum(ms, "outputTokens", 0),
                     ReduceSum(ms, "cacheReadInputTokens", 0),
                     ReduceSum(ms, "cacheCreationInputTokens", 0))

C5_ScenarioACost ==
    (RawUsage = ScenarioA /\ Past("cost")) => costEstimate = FracOfInt(55)

\* C6: doubling the four grand totals doubles costEstimate, the cost of no
\* tokens is 0, and costEstimate is not negative.
C6_CostLinear ==
    Past("cost") =>
        /\ CostEstimate(2 * totalInput, 2 * totalOutput, 2 * totalCacheRead, 2 * totalCacheCreate)
              = FracTimesInt(costEstimate, 2)
        /\ totalInput + totalOutput + totalCacheRead + totalCacheCreate = 0
              => costEstimate = FracOfInt(0)
        /\ costEstimate.num >= 0

\* a snapshot with tokens in every category
C6_Witness ==
    /\ Past("cost")
    /\ totalInput > 0
    /\ totalCacheRead + totalCacheCreate > 0
    /\ costEstimate.num > 0

----------------------------------------------------------------------------
(* Properties of the run as a whole, checked under Spec.                   *)

\* the derived metrics
metrics ==
    <<models, totalTokens, totalInput, totalOutput, totalCacheRead, totalCacheCreate,
      costEstimate, totalMessages, totalSessions, totalToolCalls, dayCount,
      avgMessagesPerDay, peakDay, topDays, maxHourCount, maxDailyMsg>>

\* every derived metric holds the value its statement computes from the
\* snapshot
MetricsComputed ==
    /\ models = Models(stats.modelUsage)
    /\ totalTokens = TotalTokens(models)
    /\ totalInput = ReduceSum(models, "inputTokens", 0)
    /\ totalOutput = ReduceSum(models, "outputTokens", 0)
    /\ totalCacheRead = ReduceSum(models, "cacheReadInputTokens", 0)
    /\ totalCacheCreate = ReduceSum(models, "cacheCreationInputTokens", 0)
    /\ costEstimate = CostEstimate(totalInput, totalOutput, totalCacheRead, totalCacheCreate)
    /\ totalMessages = TotalOr(stats, "totalMessages", Daily(stats), "messageCount")
    /\ totalSessions = TotalOr(stats, "totalSessions", Daily(stats), "sessionCount")
    /\ totalToolCalls = TotalToolCalls(Daily(stats), 0)
    /\ dayCount = Len(Daily(stats))
    /\ avgMessagesPerDay = AvgMessagesPerDay(totalMessages, dayCount)
    /\ peakDay = PeakDay(Daily(stats))
    /\ topDays \in TopDaysOutcomes(Daily(stats))
    /\ maxHourCount = MaxHourCount(HourCounts(stats))
    /\ maxDailyMsg = MaxDailyMsg(Daily(stats))

\* C17: whenever an artifact is written every derived metric is computed,
\* and no step taken once an artifact is written changes a derived metric.
C17_MetricsBeforeArtifacts ==
    /\ [](written # <<>> => MetricsComputed)
    /\ [][written # <<>> => metrics' = metrics]_vars

\* all four artifacts are written, for two models with tokens
C17_Witness ==
    /\ written = <<"index.html", "prompts.html", "data.json", "prompts.json">>
    /\ Len(models) = 2
    /\ totalTokens > 0
    /\ MetricsComputed

\* C18: deriving the metrics leaves the snapshot as it was loaded: stats,
\* and with it dailyActivity, hourCounts and modelUsage, never changes,
\* daily keeps the order and the records of dailyActivity, and the daily
\* and hourCounts of data.json are the snapshot's.
C18_SnapshotUnchanged ==
    /\ [](/\ Past("load") => stats = statsFile.json
          /\ Past("daily") => daily = RawDaily
          /\ Past("hours") => hourCounts = RawHours
          /\ Past("dataJson") => dataJson.daily = RawDaily /\ dataJson.hourCounts = RawHours)
    /\ [][statsFile' = statsFile /\ (pc # "load" => stats' = stats)]_vars

\* the run has ended with both sorts having reordered their copies
C18_Witness ==
    /\ pc = "done"
    /\ dataJson.daily = RawDaily
    /\ topDays[1] # daily[1]
    /\ Len(models) = 2
    /\ models[1].id # RawUsage[1].key

\* C19: for an empty modelUsage no statement of the aggregation throws,
\* models is empty, totalTokens and the four grand totals are 0 and
\* costEstimate is 0.
C19_EmptyUsage ==
    RawUsage = <<>> =>
        /\ error \notin {"TypeError", "SyntaxError", "ENOENT"}
        /\ Past("models") => models = <<>>
        /\ Past("totals") =>
              /\ totalTokens = 0
              /\ totalInput = 0 /\ totalOutput = 0
              /\ totalCacheRead = 0 /\ totalCacheCreate = 0
        /\ Past("cost") => costEstimate = FracOfInt(0)

\* the run on an empty modelUsage reaches its end
C19_Witness ==
    /\ RawUsage = <<>>
    /\ pc = "done"
    /\ models = <<>>
    /\ dataJson.models = <<>>
    /\ dataJson.costEstimate = FracOfInt(0)

\* the raw usage record of the model that entry m stands for
RawRecord(m) == RawUsage[KeyIndex(RawUsage, m.id)].value

\* C16: for every model key the aggregate and its entry in the models list
\* of data.json (id, total, input, output, cacheRead, cacheCreate) carry
\* all four token counters as numbers, a counter absent from the raw record
\* as 0, and total is the sum of the four.
C16_CountersCarried ==
    /\ Past("models") =>
           \A i \in 1..Len(models) :
               /\ TokenFields \subseteq DOMAIN models[i]
               /\ \A f \in TokenFields : models[i][f] = OrZero(RawRecord(models[i]), f)
               /\ models[i].total = models[i].inputTokens + models[i].outputTokens
                                    + models[i].cacheReadInputTokens
                                    + models[i].cacheCreationInputTokens
    /\ Past("dataJson") =>
           \A i \in 1..Len(dataJson.models) :
               LET e == dataJson.models[i]
               IN  /\ DOMAIN e = {"id", "total", "input", "output", "cacheRead", "cacheCreate"}
                   /\ \A x \in DOMAIN ExportNames : e[x] = OrZero(RawRecord(e), ExportNames[x])
                   /\ e.total = e.input + e.output + e.cacheRead + e.cacheCreate

----------------------------------------------------------------------------
(* Properties of the daily aggregator, checked under SpecDaily.            *)

\* the position in dailyActivity of the record of d's date
DayIndex(d) == CHOOSE i \in 1..Len(RawDaily) : RawDaily[i].date = d.date

\* the positions of dailyActivity whose record is not in topDays
NotInTop == {i \in 1..Len(RawDaily) : \A t \in 1..Len(topDays) : topDays[t] # RawDaily[i]}

\* C7: for a non-empty dailyActivity, peakDay is the earliest of the records
\* with the greatest messageCount.
C7_PeakIsFirstGreatest ==
    (Past("peak") /\ RawDaily # <<>>) =>
        \E k \in 1..Len(RawDaily) :
            /\ peakDay = RawDaily[k]
            /\ \A i \in 1..Len(RawDaily) : RawDaily[i].messageCount <= RawDaily[k].messageCount
            /\ \A i \in 1..(k - 1) : RawDaily[i].messageCount < RawDaily[k].messageCount

\* the greatest messageCount is reached twice, first after a lesser day
C7_Witness ==
    /\ Past("peak")
    /\ \E i, j, k \in 1..Len(RawDaily) :
          /\ i < j /\ j < k
          /\ RawDaily[i].messageCount < RawDaily[j].messageCount
          /\ RawDaily[j].messageCount = RawDaily[k].messageCount
          /\ peakDay = RawDaily[j]

\* C8: topDays is non-increasing in messageCount, records of equal
\* messageCount stand in their original order, and a record left out has
\* fewer messages than every record of topDays, or as many and a later
\* place in dailyActivity.
C8_TopDaysStable ==
    Past("topDays") =>
        /\ \A t \in 1..(Len(topDays) - 1) :
              \/ topDays[t].messageCount > topDays[t + 1].messageCount
              \/ /\ topDays[t].messageCount = topDays[t + 1].messageCount
                 /\ DayIndex(topDays[t]) < DayIndex(topDays[t + 1])
        /\ \A t \in 1..Len(topDays), i \in NotInTop :
              \/ RawDaily[i].messageCount < topDays[t].messageCount
              \/ /\ RawDaily[i].messageCount = topDays[t].messageCount
                 /\ i > DayIndex(topDays[t])

\* the cut at 5 falls between two records of equal messageCount
C8_Witness ==
    /\ Past("topDays")
    /\ Len(topDays) = 5
    /\ \E i \in NotInTop : RawDaily[i].messageCount = topDays[5].messageCount
    /\ topDays[1].messageCount > topDays[5].messageCount

\* C9: topDays has min(5, length of dailyActivity) records, each a record
\* of dailyActivity and none twice, and none has fewer messages than a
\* record left out.
C9_TopDaysBound ==
    Past("topDays") =>
        /\ Len(topDays) = IF Len(RawDaily) < 5 THEN Len(RawDaily) ELSE 5
        /\ \A t \in 1..Len(topDays) : \E i \in 1..Len(RawDaily) : topDays[t] = RawDaily[i]
        /\ \A t, u \in 1..Len(topDays) : t # u => topDays[t] # topDays[u]
        /\ \A t \in 1..Len(topDays), i \in NotInTop :
              topDays[t].messageCount >= RawDaily[i].messageCount

\* more than 5 days, the one left out with fewer messages than the rest
C9_Witness ==
    /\ Past("topDays")
    /\ Len(RawDaily) > 5
    /\ Len(topDays) = 5
    /\ \E i \in NotInTop : RawDaily[i].messageCount < topDays[5].messageCount
    /\ NotInTop # {Len(RawDaily)}

\* C26: for a non-empty dailyActivity with numeric messageCounts, peakDay is
\* the same record as topDays[0], also when several days tie for the
\* greatest messageCount.
C26_PeakLeadsTopDays ==
    (Past("topDays") /\ RawDaily # <<>>) =>
        /\ topDays # <<>>
        /\ peakDay = topDays[1]

\* two days tie for the greatest messageCount, after a lesser day
C26_Witness ==
    /\ Past("topDays")
    /\ \E i, j, k \in 1..Len(RawDaily) :
          /\ i < j /\ j < k
          /\ RawDaily[i].messageCount < RawDaily[j].messageCount
          /\ RawDaily[j].messageCount = RawDaily[k].messageCount
          /\ \A l \in 1..Len(RawDaily) : RawDaily[l].messageCount <= RawDaily[j].messageCount
          /\ topDays[1] = RawDaily[j]
          /\ peakDay = RawDaily[j]

\* the snapshot has no day: dailyActivity is empty or absent
NoDays == RawDaily = <<>>

\* C10: with an empty or absent dailyActivity no statement throws, peakDay
\* is the sentinel {date: "N/A", messageCount: 0}, topDays is empty and
\* maxDailyMessage is 1.
C10_EmptyDaily ==
    NoDays =>
        /\ error # "TypeError"
        /\ Past("peak") => peakDay = [date |-> "N/A", messageCount |-> 0]
        /\ Past("topDays") => topDays = <<>>
        /\ Past("index") => maxDailyMsg = 1

\* the run on a snapshot without dailyActivity reaches its end
C10_Witness ==
    /\ "dailyActivity" \notin DOMAIN statsFile.json
    /\ pc = "done"
    /\ written = <<"index.html", "prompts.html", "data.json", "prompts.json">>
    /\ maxDailyMsg = 1

----------------------------------------------------------------------------
(* Properties of the normalization maxima, checked under SpecHours.        *)

\* m is the greatest of 1 and the values of vals
IsFlooredMax(m, vals) ==
    /\ m >= 1
    /\ \A v \in vals : v <= m
    /\ m = 1 \/ m \in vals

\* C11: maxHourCount is the greatest of 1 and the counts of the 24 hours
\* 0..23 (1 when hourCounts is empty or absent), maxDailyMessage is the
\* greatest of 1 and the messageCount of the days, so neither denominator
\* of a bar height is 0.
C11_MaximaFloored ==
    /\ Past("hours") =>
           /\ IsFlooredMax(maxHourCount, {HourCountAt(RawHours, h) : h \in 0..23})
           /\ RawHours = << >> => maxHourCount = 1
           /\ maxHourCount # 0
    /\ Past("index") =>
           /\ IsFlooredMax(maxDailyMsg, {RawDaily[i].messageCount : i \in 1..Len(RawDaily)})
           /\ maxDailyMsg # 0

\* some hour counted more than once, another not at all, and a day with
\* more than one message
C11_Witness ==
    /\ Past("index")
    /\ maxHourCount > 1
    /\ \E h \in HourKeys : h \notin DOMAIN RawHours
    /\ maxDailyMsg > 1
    /\ Len(RawDaily) = 2

----------------------------------------------------------------------------
(* Properties of the lifetime totals, checked under SpecTotals.            *)

\* the sum of counter f over the day records of the snapshot
DaySum(f) == SumSeq([i \in 1..Len(RawDaily) |-> RawDaily[i][f]])

\* C14: when the snapshot has no totalMessages field, totalMessages is the
\* sum of messageCount over the records of dailyActivity, and likewise
\* totalSessions the sum of sessionCount; both are 0 for an empty
\* dailyActivity.
C14_FallbackSums ==
    Past("daily") =>
        /\ "totalMessages" \notin DOMAIN statsFile.json =>
              /\ totalMessages = DaySum("messageCount")
              /\ RawDaily = <<>> => totalMessages = 0
        /\ "totalSessions" \notin DOMAIN statsFile.json =>
              /\ totalSessions = DaySum("sessionCount")
              /\ RawDaily = <<>> => totalSessions = 0

\* neither total is supplied and two days add up to different sums
C14_Witness ==
    /\ Past("daily")
    /\ "totalMessages" \notin DOMAIN statsFile.json
    /\ "totalSessions" \notin DOMAIN statsFile.json
    /\ Len(RawDaily) = 2
    /\ RawDaily[1].messageCount > 0
    /\ RawDaily[2].messageCount > 0
    /\ totalSessions > 0
    /\ totalMessages > totalSessions

\* C28: dayCount is the number of records of dailyActivity, and
\* avgMessagesPerDay is the derived totalMessages divided by dayCount and
\* rounded to the nearest integer (a half rounds up) when dayCount > 0, and
\* 0 when dailyActivity is empty, whatever totalMessages is supplied; and
\* data.json carries both.
C28_AverageRounded ==
    /\ Past("daily") =>
        /\ dayCount = Len(RawDaily)
        /\ dayCount > 0 =>
              /\ 2 * avgMessagesPerDay * dayCount <= 2 * totalMessages + dayCount
              /\ 2 * totalMessages + dayCount < 2 * (avgMessagesPerDay + 1) * dayCount
        /\ RawDaily = <<>> => avgMessagesPerDay = 0
    /\ Past("dataJson") =>
        /\ dataJson.dayCount = Len(RawDaily)
        /\ dataJson.avgMessagesPerDay = avgMessagesPerDay

\* an odd total over two days: the quotient ends in a half
C28_Witness ==
    /\ Past("dataJson")
    /\ dayCount = 2
    /\ totalMessages = 3
    /\ avgMessagesPerDay = 2

\* a supplied total with no day
C28_NoDaySupplied ==
    /\ Past("daily")
    /\ RawDaily = <<>>
    /\ totalMessages = 60
    /\ avgMessagesPerDay = 0

\* C29: whenever the snapshot supplies totalMessages (resp. totalSessions)
\* as a number, the value 0 included, the derived totalMessages (resp.
\* totalSessions) is the supplied value, whatever dailyActivity holds.
C29_SuppliedTotalsKept ==
    Past("daily") =>
        /\ "totalMessages" \in DOMAIN statsFile.json =>
              totalMessages = statsFile.json.totalMessages
        /\ "totalSessions" \in DOMAIN statsFile.json =>
              totalSessions = statsFile.json.totalSessions

\* a supplied total other than 0 is kept
C29_NonZeroKept ==
    Past("daily") =>
        /\ ("totalMessages" \in DOMAIN statsFile.json /\ statsFile.json.totalMessages # 0) =>
              totalMessages = statsFile.json.totalMessages
        /\ ("totalSessions" \in DOMAIN statsFile.json /\ statsFile.json.totalSessions # 0) =>
              totalSessions = statsFile.json.totalSessions

----------------------------------------------------------------------------
(* Day records that lack counters, checked under SpecSparse.               *)

\* the day records with every absent counter set to 0
ZeroFilled(ds) ==
    [i \in 1..Len(ds) |->
        [f \in DOMAIN ds[i] \cup DayCounters |-> IF f \in DOMAIN ds[i] THEN ds[i][f] ELSE 0]]

\* C15: a day record that lacks messageCount, sessionCount or toolCallCount
\* gives the same derived metrics (fallback sums, totalToolCalls, peakDay,
\* topDays, maxDailyMessage) as the record with the counter set to 0, and
\* neither an error nor a value that is not a number arises.
C15_AbsentAsZero ==
    /\ error # "TypeError"
    /\ Past("daily") =>
           /\ totalMessages # NaN /\ totalSessions # NaN /\ avgMessagesPerDay # NaN
           /\ totalMessages = TotalOr(stats, "totalMessages", ZeroFilled(RawDaily), "messageCount")
           /\ totalSessions = TotalOr(stats, "totalSessions", ZeroFilled(RawDaily), "sessionCount")
           /\ totalToolCalls = TotalToolCalls(ZeroFilled(RawDaily), 0)
    /\ (Past("peak") /\ RawDaily # <<>>) =>
           ZeroFilled(<<peakDay>>) = <<PeakDay(ZeroFilled(RawDaily))>>
    /\ Past("topDays") => ZeroFilled(topDays) = TopDays(ZeroFilled(RawDaily))
    /\ Past("index") => maxDailyMsg = MaxDailyMsg(ZeroFilled(RawDaily))

----------------------------------------------------------------------------
(* Fatal input errors, checked under SpecInput.                            *)

\* the stats file cannot be read or parsed, or its modelUsage is absent or
\* not a mapping
FatalInput == ~statsFile.ok \/ "modelUsage" \notin DOMAIN statsFile.json

\* C20: on a fatal input error (the stats snapshot cannot be read or parsed,
\* or its modelUsage is absent or not a mapping) the run ends with the error
\* before any artifact is written and before any git command runs.
C20_NoPartialOutput ==
    FatalInput =>
        /\ written = <<>>
        /\ pushed = FALSE
        /\ ~Past("models")

\* the height b is value / max * 100 floored at 1
IsBarHeight(b, value, max) ==
    IF 100 * value < max THEN b = [num |-> 1, den |-> 1]
    ELSE b.num * max = 100 * value * b.den

\* the count of hour h in the snapshot, 0 when the hour is absent
RawHourCount(h) == IF ToString(h) \in DOMAIN RawHours THEN RawHours[ToString(h)] ELSE 0

\* C27: every rendered bar height, one per day record and one for each of
\* the hours 0..23 (an hour absent from hourCounts counting as 0), is
\* value / max * 100 floored at 1, and lies between 1 and 100 inclusive.
C27_BarHeights ==
    Past("index") =>
        /\ Len(bars.daily) = Len(RawDaily)
        /\ Len(bars.hours) = 24
        /\ \A i \in 1..Len(RawDaily) :
              /\ IsBarHeight(bars.daily[i], RawDaily[i].messageCount, maxDailyMsg)
              /\ bars.daily[i].den <= bars.daily[i].num
              /\ bars.daily[i].num <= 100 * bars.daily[i].den
        /\ \A h \in 0..23 :
              /\ IsBarHeight(bars.hours[h + 1], RawHourCount(h), maxHourCount)
              /\ bars.hours[h + 1].den <= bars.hours[h + 1].num
              /\ bars.hours[h + 1].num <= 100 * bars.hours[h + 1].den

\* a day and an hour with a count above 0 are floored at 1, next to a day and
\* an hour at 100, and an hour absent from hourCounts
C27_Witness ==
    /\ Past("index")
    /\ \E i, k \in 1..Len(RawDaily) :
          /\ RawDaily[i].messageCount > 0
          /\ bars.daily[i] = FracOfInt(1)
          /\ bars.daily[k] = FracOfInt(100)
    /\ RawHourCount(13) > 0
    /\ bars.hours[14] = FracOfInt(1)
    /\ bars.hours[1] = FracOfInt(100)
    /\ RawHourCount(5) = 0
    /\ bars.hours[6] = FracOfInt(1)

\* a bar strictly between the floor and the full height
C27_Halfway ==
    /\ Past("index")
    /\ \E h \in 0..23 : bars.hours[h + 1] = FracOfInt(50)

----------------------------------------------------------------------------
(* Properties of the formatters, checked under SpecFormat.                 *)

Last(t) == t[Len(t)]

Front(t) == SubSeq(t, 1, Len(t) - 1)

IsDigits(t) == t # <<>> /\ \A i \in 1..Len(t) : \E v \in 1..10 : DigitChars[v] = t[i]

DigitValue(c) == (CHOOSE v \in 1..10 : DigitChars[v] = c) - 1

\* the integer a string of digits denotes
RECURSIVE ParseInt(_)
ParseInt(t) ==
    IF Len(t) = 1 THEN DigitValue(t[1])
    ELSE 10 * ParseInt(Front(t)) + DigitValue(Last(t))

\* t is a decimal numeral with exactly d digits after the point and no
\* needless leading zero
IsDecimal(t, d) ==
    /\ Len(t) >= d + 2
    /\ t[Len(t) - d] = "."
    /\ IsDigits(SubSeq(t, 1, Len(t) - d - 1))
    /\ IsDigits(SubSeq(t, Len(t) - d + 1, Len(t)))
    /\ Len(t) > d + 2 => t[1] # "0"

\* the numeral t of d decimals, in units of 10^-d
Scaled(t, d) ==
    ParseInt(SubSeq(t, 1, Len(t) - d - 1)) * Pow10(d) + ParseInt(SubSeq(t, Len(t) - d + 1, Len(t)))

\* k is an integer nearest to num / den
Nearest(k, num, den) ==
    \/ k = num \div den /\ 2 * (num % den) <= den
    \/ k = (num \div den) + 1 /\ 2 * (num % den) >= den

\* C12: pct(part, whole) is "0" whenever whole is 0, whatever part is; for
\* a whole that is not 0 it is part / whole * 100 rounded to one decimal
\* place, written with exactly one digit after the point; pct(50, 200) is
\* "25.0".
C12_PctContract ==
    (call.fn = "pct" /\ result # <<>>) =>
        /\ call.whole = 0 => result = <<"0">>
        /\ call.whole # 0 =>
              /\ IsDecimal(result, 1)
              /\ Nearest(Scaled(result, 1), 1000 * call.part, call.whole)
        /\ (call.part = 50 /\ call.whole = 200) => result = <<"2", "5", ".", "0">>

\* a call whose percentage lies halfway between two tenths has returned
C12_Witness ==
    /\ call.fn = "pct"
    /\ result # <<>>
    /\ call.whole # 0
    /\ 2 * ((1000 * call.part) % call.whole) = call.whole

\* C13: fmt(n) ends in B exactly when n >= 10^9, in M exactly when
\* 10^6 <= n < 10^9, in K exactly when 10^3 <= n < 10^6, and has no suffix
\* exactly when n < 10^3; before B and M stands n / 10^9 resp. n / 10^6
\* rounded to two decimals, before K stands n / 10^3 rounded to one decimal,
\* and without a suffix the string is the integer itself, "0" for 0.
C13_FmtSuffix ==
    (call.fn = "fmt" /\ result # <<>>) =>
        LET n == call.n
            suffix == Last(result)
            body == Front(result)
        IN  /\ suffix = "B" <=> n >= 1000000000
            /\ suffix = "M" <=> (n >= 1000000 /\ n < 1000000000)
            /\ suffix = "K" <=> (n >= 1000 /\ n < 1000000)
            /\ IsDigits(result) <=> n < 1000
            /\ suffix = "B" => IsDecimal(body, 2) /\ Nearest(Scaled(body, 2), n, 10000000)
            /\ suffix = "M" => IsDecimal(body, 2) /\ Nearest(Scaled(body, 2), n, 10000)
            /\ suffix = "K" => IsDecimal(body, 1) /\ Nearest(Scaled(body, 1), n, 100)
            /\ IsDigits(result) => ParseInt(result) = n
            /\ n = 0 => result = <<"0">>

\* fmt has returned "1000.0K" for an n just below a million
C13_Witness ==
    /\ call.fn = "fmt"
    /\ call.n < 1000000
    /\ result = <<"1", "0", "0", "0", ".", "0", "K">>

----------------------------------------------------------------------------
(* The git step, checked under SpecInput.                                  *)

Artifacts == <<"index.html", "prompts.html", "data.json", "prompts.json">>

\* C21: the git add / commit / push step runs if and only if the command
\* line contains --push, and only after index.html, prompts.html, data.json
\* and prompts.json have been written in that order; without the flag no git
\* command runs, and a failed artifact write prevents the push.
C21_PushAfterArtifacts ==
    /\ \E n \in 0..Len(Artifacts) : written = SubSeq(Artifacts, 1, n)
    /\ pushed => "--push" \in argv /\ written = Artifacts
    /\ pc = "done" => (pushed <=> "--push" \in argv)
    /\ error = "ExecError" => pushed
    /\ error = "WriteError" => ~pushed /\ written # Artifacts

C21_Witness ==
    /\ pushed
    /\ pc = "done"
    /\ written = Artifacts

----------------------------------------------------------------------------
(* Repeated runs, checked under SpecRerun.                                 *)

DataJsonWritten == \E i \in 1..Len(written) : written[i] = "data.json"

\* C22: generation is idempotent: a second run on the same stats snapshot
\* and the same session logs writes the same data.json as the run before.
C22_Idempotent ==
    (previous # <<>> /\ DataJsonWritten) => dataJson = previous[Len(previous)]

\* the second run's data.json differs from the first run's in `generated`
\* at most
C22_SameButGenerated ==
    (previous # <<>> /\ DataJsonWritten) =>
        [dataJson EXCEPT !.generated = 0] = [previous[Len(previous)] EXCEPT !.generated = 0]

C22_SecondRun ==
    /\ previous # <<>>
    /\ DataJsonWritten
    /\ clock > previous[1].generated

----------------------------------------------------------------------------
(* The session loader, checked under SpecSessions.                         *)

\* the entries of the p-th project's index, if it is readable and has any
EntriesOf(p) ==
    LET ix == projectsDir.dirs[p].index
    IN  IF ix.exists /\ ix.valid /\ "entries" \in DOMAIN ix.json
        THEN ix.json.entries ELSE <<>>

\* the positions of the merged list that hold the session `id`
Holding(id) == {j \in 1..Len(sessions) : sessions[j].sessionId = id}

\* C23: loadAllSessions never throws because of an individual project: a
\* project whose sessions-index.json is missing or is not valid JSON
\* contributes no session, every entry of every other project's valid index
\* is returned, tagged with its projectDir and projectName, an index without
\* an entries field contributes none, and a missing projects directory
\* yields the empty list.
C23_UnreadableIndexSkipped ==
    /\ error \in {"none", "WriteError"}
    /\ Past("sessions") =>
        /\ ~projectsDir.exists => sessions = <<>>
        /\ \A p \in 1..Len(projectsDir.dirs) :
              /\ EntriesOf(p) = <<>> =>
                    \A j \in 1..Len(sessions) :
                       sessions[j].projectDir # projectsDir.dirs[p].dir
              /\ \A i \in 1..Len(EntriesOf(p)) :
                    \E j \in 1..Len(sessions) :
                       /\ sessions[j].sessionId = EntriesOf(p)[i].sessionId
                       /\ sessions[j].created = EntriesOf(p)[i].created
                       /\ sessions[j].firstPrompt = EntriesOf(p)[i].firstPrompt
                       /\ sessions[j].projectDir = projectsDir.dirs[p].dir
                       /\ sessions[j].projectName = ProjectName(projectsDir.dirs[p].dir)

C23_Witness ==
    /\ Past("sessions")
    /\ Len(projectsDir.dirs) = 2
    /\ projectsDir.dirs[1].index.exists
    /\ ~projectsDir.dirs[1].index.valid
    /\ Len(EntriesOf(2)) = 2
    /\ Len(sessions) = 2

\* C24: the merged session list is in reverse-chronological order across all
\* projects (of two adjacent sessions the earlier-listed one is not older),
\* and it holds exactly the entries of all loaded indexes, none dropped or
\* duplicated by the sort.
C24_NewestFirst ==
    Past("sessions") =>
        /\ \A j \in 1..(Len(sessions) - 1) : sessions[j].created >= sessions[j + 1].created
        /\ \A p \in 1..Len(projectsDir.dirs) : \A i \in 1..Len(EntriesOf(p)) :
              Cardinality(Holding(EntriesOf(p)[i].sessionId)) = 1
        /\ \A j \in 1..Len(sessions) :
              \E p \in 1..Len(projectsDir.dirs) : \E i \in 1..Len(EntriesOf(p)) :
                 sessions[j].sessionId = EntriesOf(p)[i].sessionId

C24_Witness ==
    /\ Past("sessions")
    /\ Len(sessions) = 4
    /\ sessions[1].projectDir # sessions[2].projectDir
    /\ sessions[1].created > sessions[4].created
    /\ EntriesOf(1)[1].created < EntriesOf(2)[2].created

----------------------------------------------------------------------------
(* The prompt extractor, checked under SpecPrompts.                        *)

\* the session has a firstPrompt of at least one character
Prompted(s) == "firstPrompt" \in DOMAIN s /\ Len(s.firstPrompt) > 0

\* the position among the sessions `ss` of the k-th one that is prompted
KthPrompted(ss, k) ==
    CHOOSE i \in 1..Len(ss) :
       Prompted(ss[i]) /\ Cardinality({j \in 1..i : Prompted(ss[j])}) = k

\* C25: extractPrompts returns exactly one record per session that has a
\* non-empty firstPrompt and none for the others, in the order of the input;
\* each record's prompt is the first min(500, length) characters of
\* firstPrompt, and an absent summary, projectName and messageCount become
\* "", "" and 0.
C25_PromptRecords ==
    result # <<>> =>
        LET ss  == call.sessions
            out == result[1]
        IN  /\ Len(out) = Cardinality({i \in 1..Len(ss) : Prompted(ss[i])})
            /\ \A k \in 1..Len(out) :
                  LET s == ss[KthPrompted(ss, k)]
                  IN  /\ out[k].date = s.created
                      /\ out[k].prompt =
                            SubSeq(s.firstPrompt, 1, Min(500, Len(s.firstPrompt)))
                      /\ Len(out[k].prompt) <= 500
                      /\ out[k].summary =
                            IF "summary" \in DOMAIN s THEN s.summary ELSE <<>>
                      /\ out[k].project =
                            IF "projectName" \in DOMAIN s THEN s.projectName ELSE <<>>
                      /\ out[k].messages =
                            IF "messageCount" \in DOMAIN s THEN s.messageCount ELSE 0

C25_Witness ==
    /\ result # <<>>
    /\ Len(call.sessions) = 2
    /\ ~Prompted(call.sessions[1])
    /\ DOMAIN call.sessions[2] = {"created", "firstPrompt"}
    /\ Len(call.sessions[2].firstPrompt) > 500
    /\ Len(result[1]) = 1
    /\ Len(result[1][1].prompt) = 500

----------------------------------------------------------------------------
(* Usage records with fields of their own, checked under SpecExtras.       *)

\* the sum of the four counters of the raw record at position j
RawTotal(j) ==
    OrZero(RawUsage[j].value, "inputTokens") + OrZero(RawUsage[j].value, "outputTokens")
    + OrZero(RawUsage[j].value, "cacheReadInputTokens")
    + OrZero(RawUsage[j].value, "cacheCreationInputTokens")

\* C30: for every key k of modelUsage, the aggregate produced for k has
\* id = k and total = the sum of its four counters, whatever other fields the
\* raw record carries, a field named id or total included; data.json lists
\* the same id and total.
C30_AggregateKeyed ==
    /\ Past("models") =>
          /\ Len(models) = Len(RawUsage)
          /\ \A j \in 1..Len(RawUsage) :
                \E i \in 1..Len(models) :
                   models[i].id = RawUsage[j].key /\ models[i].total = RawTotal(j)
    /\ Past("dataJson") =>
          \A j \in 1..Len(RawUsage) :
             \E i \in 1..Len(dataJson.models) :
                /\ dataJson.models[i].id = RawUsage[j].key
                /\ dataJson.models[i].total = RawTotal(j)

\* the total of every aggregate is the sum of its counters, also when the
\* raw record carries a total
C30_TotalIsSum ==
    Past("models") =>
        /\ Len(models) = Len(RawUsage)
        /\ \A i \in 1..Len(models) :
              models[i].total = OrZero(models[i], "inputTokens") + OrZero(models[i], "outputTokens")
        /\ \A j \in 1..Len(RawUsage) :
              "id" \notin DOMAIN RawUsage[j].value =>
                 \E i \in 1..Len(models) :
                    models[i].id = RawUsage[j].key /\ models[i].total = RawTotal(j)

C30_RawTotalOverridden ==
    /\ Past("dataJson")
    /\ \E j \in 1..Len(RawUsage) :
          /\ DOMAIN RawUsage[j].value = {"inputTokens", "outputTokens", "total"}
          /\ \E i \in 1..Len(models) : models[i].id = RawUsage[j].key /\ models[i].total < 99

====
